---- MODULE Spec2Model ----
(***************************************************************************)
(* nsloopctl: the loop registry, the per-iteration checkpoint              *)
(* (CheckControl), the loopctl_* control commands and the per-thread       *)
(* async abort handle of src/nsloopctl.c.                                  *)
(*                                                                         *)
(* Every access to the shared tables, to a LoopData and to an EvalData is  *)
(* made with the one mutex `lock` held, so each critical section of the    *)
(* source is one action here; a condition wait ends a critical section     *)
(* and the code after it is the next one.                                  *)
(***************************************************************************)
EXTENDS Integers, Sequences, FiniteSets, TLC

\* ---------------------------------------------------------------- bounds
NumThreads == 2     \* threads that run interpreters and loops
NumCtl     == 2     \* controller threads that call loopctl_eval
NumScripts == 2     \* distinct scripts a controller may send
MaxSpins   == 2     \* checkpoint visits explored per loop
NextMod    == 2     \* wrap of the id counter `next` (unsigned int in the source)
MaxTime    == 2     \* readings of the clock explored

\* wrap of `unsigned int spins`, past every visit the capped loop test allows
SpinMod == MaxSpins + 1

\* ------------------------------------------------------- program constants
TCL_OK       == 0
TCL_ERROR    == 1
TCL_BREAK    == 3
TCL_CONTINUE == 4

LOOP_RUN    == 0
LOOP_PAUSE  == 1
LOOP_CANCEL == 2

EVAL_WAIT == 0
EVAL_DONE == 1
EVAL_DROP == 2

Threads     == 1..NumThreads
Controllers == 1..NumCtl
Scripts     == 1..NumScripts
NULL        == 0

\* interp result strings left by this module
MsgNone     == "none"
MsgCanceled == "nsloopctl: loop canceled: returning TCL_ERROR"
MsgAbort    == "nsloopctl: async thread abort: returning TCL_ERROR"
MsgError    == "error"
MsgNoLoop   == "no such loop id: "
MsgNoThread == "no such active thread: "

VARIABLES
    loops,      \* hash table `loops`: loop id -> thread whose LoopData it points to
    threads,    \* hash table `threads`: ids of the threads with a ThreadData
    next,       \* EnterLoop's static counter
    lock,       \* the mutex `lock`: NULL or the thread that holds it between two steps
    async,      \* per thread: state of ThreadData.cancel ("none", "idle", "marked")
    tpc,        \* per thread: position of the thread
    kind,       \* per thread: the loop command being run ("for", "while", "foreach")
    lid,        \* LoopData.lid
    control,    \* LoopData.control
    spins,      \* LoopData.spins
    etime,      \* LoopData.etime
    evalPtr,    \* LoopData.evalPtr: NULL or the controller whose EvalData it points to
    code,       \* per thread: the C local `result` / the command's return code
    iresult,    \* per thread: the interpreter's result
    script,     \* per thread: CheckControl's local copy of the script
    ivar,       \* per thread: a variable of the thread's interpreter
    woken,      \* per thread: the condition variable has been signalled to it
    cpc,        \* per controller: position in EvalObjCmd
    eval,       \* per controller: the EvalData on EvalObjCmd's stack
    target,     \* per controller: loopPtr of EvalObjCmd
    cwoken,     \* per controller: the condition variable has been signalled to it
    cret,       \* per controller: what the last loopctl_eval returned
    host,       \* per controller: the loop thread whose body called loopctl_eval, else NULL
    aret,       \* what the last loopctl_info, _pause, _run, _cancel or _abort returned
    now,        \* the clock read by Ns_GetTime
    execCount,  \* history: times the script of the controller's request was picked up
    doneCode,   \* history: completion code of the execution that completed the request
    owner,      \* history, per thread: the controller whose request (still in
                \* progress) the script being run was picked up for, else NULL
    sincePause, \* history, per thread: spins counted since control became LOOP_PAUSE
    overridden, \* history, per thread: a LOOP_CANCEL of its loop was overwritten by a later signal
    iters       \* history, per thread: body evaluations the loop has finished

vars == <<loops, threads, next, lock, async, tpc, kind, lid, control, spins, etime, evalPtr,
          code, iresult, script, ivar, woken, cpc, eval, target, cwoken, cret, host,
          aret, now, execCount, doneCode, owner, sincePause, overridden, iters>>

regVars  == <<loops, threads, next, lock>>
loopVars == <<kind, lid, control, spins, etime, evalPtr>>
ctlVars  == <<cpc, eval, target, cwoken, cret, host>>
histVars == <<execCount, doneCode, owner, sincePause, overridden, iters>>
envVars  == <<ivar, aret, now>>

\* ---------------------------------------------------------------- helpers

\* snprintf(lid, "%" PRIxPTR, n): the hexadecimal digits of n, most significant first
RECURSIVE Hex(_)
Hex(n) == IF n < 16 THEN <<n>> ELSE Append(Hex(n \div 16), n % 16)

LoopIds == {Hex(n) : n \in 0..(NextMod - 1)}

\* an EnterLoop that takes the counter's value without looking at the table
ProbeNone(n, used) == n

\* next++ probing in EnterLoop: the first counter value at or after n whose key is unused
RECURSIVE Probe(_, _)
Probe(n, used) == IF Hex(n) \in used THEN Probe((n + 1) % NextMod, used) ELSE n

\* the EvalData of a frame that is not in use
NoEval == [state |-> EVAL_WAIT, code |-> TCL_OK, script |-> NULL, result |-> <<>>]
NoRet  == [outcome |-> "none", code |-> TCL_OK, text |-> <<>>]

\* what a control command leaves in its interpreter: the code it returns, the
\* message and its argument, and the attribute list of loopctl_info
NoAret == [code |-> TCL_OK, msg |-> MsgNone, arg |-> <<>>, info |-> <<>>]

\* the script's evaluation by Tcl_EvalEx: its completion code and its result
ScriptCode(s)   == IF s % 2 = 0 THEN TCL_ERROR ELSE TCL_OK
ScriptResult(s) == ToString(40 + s)
\* ... and its effect on the interpreter's variable (`set doloop 0` in loop-1.7)
ScriptVar(s)    == s

\* Ns_MutexLock returns when no thread holds the lock
LockFree == lock = NULL

\* a body that runs on while the loopctl_eval it called is still waiting
BlockedNever(t) == FALSE

\* thread t is inside a loopctl_eval its loop body called and waits there
Blocked(t) == \E c \in Controllers : host[c] = t /\ cpc[c] = "wait"

\* threads with a loop between EnterLoop and LeaveLoop
InLoopPcs == {"setup", "test", "check", "evalrun", "evalfin", "pausewait",
              "body", "fornext", "leave"}
InLoop(t) == tpc[t] \in InLoopPcs

\* a broadcast that reaches no loop thread
NoBroadcastT == woken

\* Ns_CondBroadcast(&cond): every thread waiting on the condition is woken
BroadcastT == [t \in Threads |-> woken[t] \/ tpc[t] = "pausewait"]
BroadcastC == [c \in Controllers |-> cwoken[c] \/ cpc[c] = "wait"]

Init ==
    /\ loops = << >>
    /\ threads = {}
    /\ next = 0
    /\ lock = NULL
    /\ async = [t \in Threads |-> "none"]
    /\ tpc = [t \in Threads |-> "none"]
    /\ kind = [t \in Threads |-> "while"]
    /\ lid = [t \in Threads |-> << >>]
    /\ control = [t \in Threads |-> LOOP_RUN]
    /\ spins = [t \in Threads |-> 0]
    /\ evalPtr = [t \in Threads |-> NULL]
    /\ code = [t \in Threads |-> TCL_OK]
    /\ iresult = [t \in Threads |-> MsgNone]
    /\ script = [t \in Threads |-> NULL]
    /\ woken = [t \in Threads |-> FALSE]
    /\ cpc = [c \in Controllers |-> "idle"]
    /\ eval = [c \in Controllers |-> NoEval]
    /\ target = [c \in Controllers |-> NULL]
    /\ cwoken = [c \in Controllers |-> FALSE]
    /\ cret = [c \in Controllers |-> NoRet]
    /\ host = [c \in Controllers |-> NULL]
    /\ execCount = [c \in Controllers |-> 0]
    /\ doneCode = [c \in Controllers |-> TCL_OK]
    /\ owner = [t \in Threads |-> NULL]
    /\ sincePause = [t \in Threads |-> 0]
    /\ overridden = [t \in Threads |-> FALSE]
    /\ etime = [t \in Threads |-> 0]
    /\ ivar = [t \in Threads |-> 0]
    /\ aret = NoAret
    /\ now = 0
    /\ iters = [t \in Threads |-> 0]

\* ------------------------------------------------------- interpreter threads

\* an interpreter initialisation that never enters the thread in the table
InitInterpNoEntry(t) ==
    /\ tpc[t] \in {"none", "idle"}
    /\ tpc' = [tpc EXCEPT ![t] = "idle"]
    /\ UNCHANGED <<loops, threads, async, next, lock, loopVars, code, iresult, script, woken,
                   ctlVars, histVars, envVars>>

\* InitInterp: the first interpreter of a thread creates the thread's
\* ThreadData and enters it in `threads`; later interpreters find it in the TLS slot.
InitInterp(t) ==
    /\ tpc[t] \in {"none", "idle"}
    /\ LockFree
    /\ IF t \in threads
         THEN UNCHANGED <<threads, async>>
         ELSE /\ threads' = threads \cup {t}
              /\ async' = [async EXCEPT ![t] = "idle"]
    /\ tpc' = [tpc EXCEPT ![t] = "idle"]
    /\ UNCHANGED <<loops, next, lock, loopVars, code, iresult, script, woken, ctlVars, histVars,
                   envVars>>

\* a cleanup that deletes the handler first and leaves the entry for later
ThreadCleanupDeletesFirst(t) ==
    /\ tpc[t] = "idle"
    /\ LockFree
    /\ async' = [async EXCEPT ![t] = "none"]
    /\ tpc' = [tpc EXCEPT ![t] = "cleanup"]
    /\ code' = [code EXCEPT ![t] = TCL_OK]
    /\ iresult' = [iresult EXCEPT ![t] = MsgNone]
    /\ UNCHANGED <<loops, threads, next, lock, loopVars, script, woken, ctlVars, histVars,
                   envVars>>

\* a cleanup that leaves the thread's entry in `threads`
ThreadCleanupKeepsEntry(t) ==
    /\ tpc[t] = "idle"
    /\ LockFree
    /\ tpc' = [tpc EXCEPT ![t] = "cleanup"]
    /\ code' = [code EXCEPT ![t] = TCL_OK]
    /\ iresult' = [iresult EXCEPT ![t] = MsgNone]
    /\ UNCHANGED <<loops, threads, next, lock, async, loopVars, script, woken, ctlVars, histVars,
                   envVars>>

\* ThreadCleanup, first half: the entry leaves `threads` under the lock.
ThreadCleanup(t) ==
    /\ tpc[t] = "idle"
    /\ LockFree
    /\ threads' = threads \ {t}
    /\ tpc' = [tpc EXCEPT ![t] = "cleanup"]
    /\ code' = [code EXCEPT ![t] = TCL_OK]
    /\ iresult' = [iresult EXCEPT ![t] = MsgNone]
    /\ UNCHANGED <<loops, next, lock, async, loopVars, script, woken, ctlVars, histVars, envVars>>

\* ThreadCleanup, second half: Tcl_AsyncDelete and ns_free, outside the lock.
AsyncDelete(t) ==
    /\ tpc[t] = "cleanup"
    /\ async' = [async EXCEPT ![t] = "none"]
    /\ tpc' = [tpc EXCEPT ![t] = "none"]
    /\ UNCHANGED <<regVars, loopVars, code, iresult, script, woken, ctlVars, histVars, envVars>>

\* an async handler that hands back the code it was given
ThreadAbortKeepsCode(c) == c

\* ThreadAbort: the async handler; the code it returns replaces the code of
\* the evaluation that reached the safe point.
ThreadAbort(c) == TCL_ERROR

\* a handler that stays marked after it was invoked
SafeAsyncStays(t) == async

\* A Tcl evaluation on thread t that would complete with code c and result r:
\* at its safe point a marked handler is invoked (ThreadAbort) and unmarked.
SafeCode(t, c) == IF async[t] = "marked" THEN ThreadAbort(c) ELSE c
SafeMsg(t, r)  == IF async[t] = "marked" THEN MsgAbort ELSE r
SafeAsync(t)   == IF async[t] = "marked" THEN [async EXCEPT ![t] = "idle"] ELSE async

\* a command evaluated by a thread that is in no loop
IdleCmd(t) ==
    /\ tpc[t] = "idle"
    /\ code' = [code EXCEPT ![t] = SafeCode(t, TCL_OK)]
    /\ iresult' = [iresult EXCEPT ![t] = SafeMsg(t, MsgNone)]
    /\ async' = SafeAsync(t)
    /\ UNCHANGED <<regVars, tpc, loopVars, script, woken, ctlVars, histVars, envVars>>

\* EnterLoop: initialise the LoopData and enter it under a fresh id.
EnterLoop(t) ==
    LET n == Probe(next, DOMAIN loops)
    IN  /\ Cardinality(DOMAIN loops) < NextMod
        /\ control' = [control EXCEPT ![t] = LOOP_RUN]
        /\ spins' = [spins EXCEPT ![t] = 0]
        /\ evalPtr' = [evalPtr EXCEPT ![t] = NULL]
        /\ etime' = [etime EXCEPT ![t] = now]
        /\ lid' = [lid EXCEPT ![t] = Hex(n)]
        /\ next' = (n + 1) % NextMod
        /\ loops' = [k \in DOMAIN loops \cup {Hex(n)} |->
                        IF k = Hex(n) THEN t ELSE loops[k]]

\* LeaveLoop that deletes the entry and leaves a pending request waiting.
LeaveLoopNoDrop(t) ==
    /\ UNCHANGED <<eval, woken, cwoken>>
    /\ loops' = [k \in DOMAIN loops \ {lid[t]} |-> loops[k]]

\* LeaveLoop without Tcl_DeleteHashEntry: the entry outlives the loop.
LeaveLoopKeepsEntry(t) ==
    /\ IF evalPtr[t] # NULL
         THEN /\ eval' = [eval EXCEPT ![evalPtr[t]].state = EVAL_DROP]
              /\ woken' = BroadcastT
              /\ cwoken' = BroadcastC
         ELSE UNCHANGED <<eval, woken, cwoken>>
    /\ loops' = loops

\* LeaveLoop: drop a pending eval request and delete the table entry.
LeaveLoop(t) ==
    /\ IF evalPtr[t] # NULL
         THEN /\ eval' = [eval EXCEPT ![evalPtr[t]].state = EVAL_DROP]
              /\ woken' = BroadcastT
              /\ cwoken' = BroadcastC
         ELSE UNCHANGED <<eval, woken, cwoken>>
    /\ loops' = [k \in DOMAIN loops \ {lid[t]} |-> loops[k]]

\* ForObjCmd up to the loop: the initial command, then EnterLoop.
ForStart(t) ==
    /\ tpc[t] = "idle"
    /\ \E r \in {TCL_OK, TCL_ERROR} :
         LET c == SafeCode(t, r)
         IN  /\ async' = SafeAsync(t)
             /\ IF c # TCL_OK
                  THEN /\ code' = [code EXCEPT ![t] = c]
                       /\ iresult' = [iresult EXCEPT ![t] = SafeMsg(t, MsgError)]
                       /\ UNCHANGED <<loops, next, tpc, loopVars>>
                  ELSE /\ LockFree
                       /\ EnterLoop(t)
                       /\ kind' = [kind EXCEPT ![t] = "for"]
                       /\ tpc' = [tpc EXCEPT ![t] = "test"]
                       /\ code' = [code EXCEPT ![t] = TCL_OK]
                       /\ iresult' = [iresult EXCEPT ![t] = MsgNone]
    /\ UNCHANGED <<threads, lock, script, woken, ctlVars, histVars, envVars>>

\* WhileObjCmd up to the loop.
WhileStart(t) ==
    /\ tpc[t] = "idle"
    /\ LockFree
    /\ EnterLoop(t)
    /\ kind' = [kind EXCEPT ![t] = "while"]
    /\ tpc' = [tpc EXCEPT ![t] = "test"]
    /\ code' = [code EXCEPT ![t] = TCL_OK]
    /\ iresult' = [iresult EXCEPT ![t] = MsgNone]
    /\ UNCHANGED <<threads, lock, async, script, woken, ctlVars, histVars, envVars>>

\* ForeachObjCmd up to EnterLoop.
ForeachStart(t) ==
    /\ tpc[t] = "idle"
    /\ LockFree
    /\ EnterLoop(t)
    /\ kind' = [kind EXCEPT ![t] = "foreach"]
    /\ tpc' = [tpc EXCEPT ![t] = "setup"]
    /\ code' = [code EXCEPT ![t] = TCL_OK]
    /\ iresult' = [iresult EXCEPT ![t] = MsgNone]
    /\ UNCHANGED <<threads, lock, async, script, woken, ctlVars, histVars, envVars>>

\* ForeachObjCmd returning the setup error directly instead of going to done.
ForeachSetupReturns(t) ==
    /\ tpc[t] = "setup"
    /\ \E r \in {TCL_OK, TCL_ERROR} :
         /\ code' = [code EXCEPT ![t] = r]
         /\ iresult' = [iresult EXCEPT ![t] = IF r = TCL_OK THEN MsgNone ELSE MsgError]
         /\ tpc' = [tpc EXCEPT ![t] = IF r = TCL_OK THEN "test" ELSE "idle"]
    /\ UNCHANGED <<regVars, async, loopVars, script, woken, ctlVars, histVars, envVars>>

\* ForeachObjCmd: breaking up the variable and value lists; an error goes to done.
ForeachSetup(t) ==
    /\ tpc[t] = "setup"
    /\ \E r \in {TCL_OK, TCL_ERROR} :
         /\ code' = [code EXCEPT ![t] = r]
         /\ iresult' = [iresult EXCEPT ![t] = IF r = TCL_OK THEN MsgNone ELSE MsgError]
         /\ tpc' = [tpc EXCEPT ![t] = IF r = TCL_OK THEN "test" ELSE "leave"]
    /\ UNCHANGED <<regVars, async, loopVars, script, woken, ctlVars, histVars, envVars>>

\* The loop test: Tcl_ExprBooleanObj of for and while (an error goes to done,
\* false breaks), j < maxj and the assignment of the loop variables of foreach.
\* An expression that evaluates a command reaches a safe point.
LoopTest(t, cap) ==
    /\ tpc[t] = "test"
    /\ \/ /\ spins[t] < cap
          /\ tpc' = [tpc EXCEPT ![t] = "check"]
          /\ code' = [code EXCEPT ![t] = TCL_OK]
          /\ iresult' = [iresult EXCEPT ![t] = MsgNone]
          /\ UNCHANGED async
       \/ /\ tpc' = [tpc EXCEPT ![t] = "leave"]
          /\ code' = [code EXCEPT ![t] = TCL_OK]
          /\ iresult' = [iresult EXCEPT ![t] = MsgNone]
          /\ UNCHANGED async
       \/ /\ tpc' = [tpc EXCEPT ![t] = "leave"]
          /\ code' = [code EXCEPT ![t] = TCL_ERROR]
          /\ iresult' = [iresult EXCEPT ![t] = MsgError]
          /\ UNCHANGED async
       \/ /\ kind[t] # "foreach"
          /\ async[t] = "marked"
          /\ tpc' = [tpc EXCEPT ![t] = "leave"]
          /\ code' = [code EXCEPT ![t] = SafeCode(t, TCL_OK)]
          /\ iresult' = [iresult EXCEPT ![t] = SafeMsg(t, MsgNone)]
          /\ async' = SafeAsync(t)
    /\ UNCHANGED <<regVars, loopVars, script, woken, ctlVars, histVars, envVars>>

\* the loop test of a loop explored for MaxSpins checkpoint visits
Test(t) == LoopTest(t, MaxSpins)

\* the loop test of a loop that goes on for as long as its test holds
TestOn(t) == LoopTest(t, SpinMod)

\* ------------------------------------------------------------ CheckControl

\* a checkpoint that never sees the pause flag
IsPausedNever(ctl) == FALSE

\* a checkpoint that never sees the cancel flag
IsCanceledNever(ctl) == FALSE

\* CheckControl: the tests of loopPtr->control
IsCanceled(ctl) == ctl = LOOP_CANCEL
IsPaused(ctl)   == ctl = LOOP_PAUSE

\* a checkpoint that keeps the lock while it runs the script
UnlockNot(t) == t

\* Ns_MutexUnlock by the thread that holds the lock: the lock is free
Unlock(t) == NULL

\* a checkpoint that returns the cancel error before it looks for a script
WhileTopCancelFirst(t, ev, ctl) ==
    IF IsCanceled(ctl)
      THEN /\ tpc' = [tpc EXCEPT ![t] = "leave"]
           /\ code' = [code EXCEPT ![t] = TCL_ERROR]
           /\ iresult' = [iresult EXCEPT ![t] = MsgCanceled]
           /\ UNCHANGED <<script, execCount, lock>>
    ELSE IF ev # NULL
      THEN /\ script' = [script EXCEPT ![t] = eval[ev].script]
           /\ execCount' = [execCount EXCEPT ![ev] = @ + 1]
           /\ tpc' = [tpc EXCEPT ![t] = "evalrun"]
           /\ lock' = Unlock(t)
           /\ UNCHANGED <<code, iresult>>
    ELSE IF IsPaused(ctl)
      THEN /\ tpc' = [tpc EXCEPT ![t] = "pausewait"]
           /\ UNCHANGED <<script, execCount, lock, code, iresult>>
      ELSE /\ tpc' = [tpc EXCEPT ![t] = "body"]
           /\ code' = [code EXCEPT ![t] = TCL_OK]
           /\ UNCHANGED <<script, execCount, lock, iresult>>

\* a checkpoint that does not look for an attached script
WhileTopSkipsEval(t, ev, ctl) ==
    /\ UNCHANGED <<script, execCount, lock>>
    /\ IF IsPaused(ctl)
         THEN /\ tpc' = [tpc EXCEPT ![t] = "pausewait"]
              /\ UNCHANGED <<code, iresult>>
         ELSE IF IsCanceled(ctl)
         THEN /\ tpc' = [tpc EXCEPT ![t] = "leave"]
              /\ code' = [code EXCEPT ![t] = TCL_ERROR]
              /\ iresult' = [iresult EXCEPT ![t] = MsgCanceled]
         ELSE /\ tpc' = [tpc EXCEPT ![t] = "body"]
              /\ code' = [code EXCEPT ![t] = TCL_OK]
              /\ UNCHANGED iresult

\* a checkpoint that waits while paused before it looks for a script
WhileTopPauseFirst(t, ev, ctl) ==
    IF IsPaused(ctl)
      THEN /\ tpc' = [tpc EXCEPT ![t] = "pausewait"]
           /\ UNCHANGED <<script, execCount, lock, code, iresult>>
    ELSE IF ev # NULL
      THEN /\ script' = [script EXCEPT ![t] = eval[ev].script]
           /\ execCount' = [execCount EXCEPT ![ev] = @ + 1]
           /\ tpc' = [tpc EXCEPT ![t] = "evalrun"]
           /\ lock' = Unlock(t)
           /\ UNCHANGED <<code, iresult>>
    ELSE IF IsCanceled(ctl)
      THEN /\ tpc' = [tpc EXCEPT ![t] = "leave"]
           /\ code' = [code EXCEPT ![t] = TCL_ERROR]
           /\ iresult' = [iresult EXCEPT ![t] = MsgCanceled]
           /\ UNCHANGED <<script, execCount, lock>>
      ELSE /\ tpc' = [tpc EXCEPT ![t] = "body"]
           /\ code' = [code EXCEPT ![t] = TCL_OK]
           /\ UNCHANGED <<script, execCount, lock, iresult>>

\* The head of CheckControl's while loop, evaluated with the lock held, for a
\* loop whose evalPtr is ev and whose control is ctl: pick up the pending
\* script and release the lock to run it, or wait while paused, or return.
WhileTop(t, ev, ctl) ==
    IF ev # NULL
      THEN /\ script' = [script EXCEPT ![t] = eval[ev].script]
           /\ execCount' = [execCount EXCEPT ![ev] = @ + 1]
           /\ tpc' = [tpc EXCEPT ![t] = "evalrun"]
           /\ lock' = Unlock(t)
           /\ UNCHANGED <<code, iresult>>
      ELSE /\ UNCHANGED <<script, execCount, lock>>
           /\ IF IsPaused(ctl)
                THEN /\ tpc' = [tpc EXCEPT ![t] = "pausewait"]
                     /\ UNCHANGED <<code, iresult>>
                ELSE IF IsCanceled(ctl)
                THEN /\ tpc' = [tpc EXCEPT ![t] = "leave"]
                     /\ code' = [code EXCEPT ![t] = TCL_ERROR]
                     /\ iresult' = [iresult EXCEPT ![t] = MsgCanceled]
                ELSE /\ tpc' = [tpc EXCEPT ![t] = "body"]
                     /\ code' = [code EXCEPT ![t] = TCL_OK]
                     /\ UNCHANGED iresult

\* CheckControl, entry: take the lock, count the spin, evaluate the while loop.
CheckEnter(t) ==
    /\ tpc[t] = "check"
    /\ LockFree
    /\ spins' = [spins EXCEPT ![t] = (@ + 1) % SpinMod]
    /\ WhileTop(t, evalPtr[t], control[t])
    /\ woken' = [woken EXCEPT ![t] = FALSE]
    /\ owner' = [owner EXCEPT ![t] = evalPtr[t]]
    /\ sincePause' = [sincePause EXCEPT ![t] = IF control[t] = LOOP_PAUSE THEN @ + 1 ELSE @]
    /\ UNCHANGED <<loops, threads, next, async, kind, lid, control, etime, evalPtr, ctlVars,
                   doneCode,
                   overridden, iters, envVars>>

\* an evaluation in the interpreter of the thread that sent the script
EvalInterpOfSender(t) == IF owner[t] # NULL THEN NumThreads + 1 - t ELSE t

\* CheckControl: the interp the script is evaluated in is the one the loop
\* command of thread t was called with
EvalInterp(t) == t

\* CheckControl: Tcl_EvalEx of the copied script, with the lock released.
EvalExec(t) ==
    /\ tpc[t] = "evalrun"
    /\ code' = [code EXCEPT ![t] = SafeCode(t, ScriptCode(script[t]))]
    /\ iresult' = [iresult EXCEPT ![t] = SafeMsg(t, ScriptResult(script[t]))]
    /\ async' = SafeAsync(t)
    /\ ivar' = [ivar EXCEPT ![EvalInterp(t)] = ScriptVar(script[t])]
    /\ script' = [script EXCEPT ![t] = NULL]
    /\ tpc' = [tpc EXCEPT ![t] = "evalfin"]
    /\ UNCHANGED <<regVars, loopVars, woken, ctlVars, histVars, aret, now>>

\* What CheckControl stores in the EvalData its loop points to after the script ran.
StoreResult(e, r, c) == [e EXCEPT !.result = Append(@, r), !.state = EVAL_DONE]

\* a checkpoint that leaves the served request attached
DetachNot(t) == evalPtr

\* CheckControl: loopPtr->evalPtr = NULL once the result is stored
Detach(t) == [evalPtr EXCEPT ![t] = NULL]

\* a checkpoint that runs the script of the attached request a second time
\* before it stores the result
EvalFinishRunsAgain(t) ==
    /\ tpc[t] = "evalfin"
    /\ LockFree
    /\ IF evalPtr[t] # NULL /\ execCount[evalPtr[t]] < 2
         THEN /\ script' = [script EXCEPT ![t] = eval[evalPtr[t]].script]
              /\ execCount' = [execCount EXCEPT ![evalPtr[t]] = @ + 1]
              /\ tpc' = [tpc EXCEPT ![t] = "evalrun"]
              /\ UNCHANGED <<eval, evalPtr, cwoken, doneCode, woken, owner, code, iresult>>
         ELSE /\ IF evalPtr[t] = NULL
                   THEN UNCHANGED <<eval, evalPtr, cwoken, doneCode>>
                   ELSE /\ eval' = [eval EXCEPT ![evalPtr[t]] = StoreResult(@, iresult[t], code[t])]
                        /\ doneCode' = [doneCode EXCEPT ![evalPtr[t]] = code[t]]
                        /\ evalPtr' = [evalPtr EXCEPT ![t] = NULL]
                        /\ cwoken' = BroadcastC
              /\ woken' = [woken EXCEPT ![t] = FALSE]
              /\ tpc' = [tpc EXCEPT ![t] = IF IsPaused(control[t]) THEN "pausewait" ELSE "body"]
              /\ owner' = [owner EXCEPT ![t] = NULL]
              /\ UNCHANGED <<script, execCount, code, iresult>>
    /\ UNCHANGED <<loops, threads, next, lock, async, kind, lid, control, spins, etime, cpc,
                   target, cret, host, sincePause, overridden, iters, envVars>>

\* CheckControl after the script: take the lock again, hand the result to the
\* request that is attached (or log it as dropped), wait if paused, else loop.
EvalFinish(t) ==
    /\ tpc[t] = "evalfin"
    /\ LockFree
    /\ IF evalPtr[t] = NULL
         THEN UNCHANGED <<eval, evalPtr, cwoken, doneCode>>
         ELSE /\ eval' = [eval EXCEPT ![evalPtr[t]] = StoreResult(@, iresult[t], code[t])]
              /\ doneCode' = [doneCode EXCEPT ![evalPtr[t]] = code[t]]
              /\ evalPtr' = Detach(t)
              /\ cwoken' = BroadcastC
    /\ woken' = [(IF evalPtr[t] = NULL THEN woken ELSE BroadcastT) EXCEPT ![t] = FALSE]
    /\ WhileTop(t, NULL, control[t])
    /\ owner' = [owner EXCEPT ![t] = NULL]
    /\ UNCHANGED <<loops, threads, next, async, kind, lid, control, spins, etime, cpc, target,
                   cret, host,
                   sincePause, overridden, iters, envVars>>

\* a checkpoint that counts a spin each time its wait returns
PauseWakeCountsSpin(t) ==
    /\ tpc[t] = "pausewait"
    /\ woken[t]
    /\ LockFree
    /\ woken' = [woken EXCEPT ![t] = FALSE]
    /\ spins' = [spins EXCEPT ![t] = (@ + 1) % SpinMod]
    /\ WhileTop(t, evalPtr[t], control[t])
    /\ owner' = [owner EXCEPT ![t] = evalPtr[t]]
    /\ UNCHANGED <<loops, threads, next, async, kind, lid, control, etime, evalPtr, ctlVars,
                   doneCode, sincePause, overridden, iters, envVars>>

\* CheckControl: Ns_CondWait returns (signalled) and the while loop is evaluated again.
PauseWake(t) ==
    /\ tpc[t] = "pausewait"
    /\ woken[t]
    /\ LockFree
    /\ woken' = [woken EXCEPT ![t] = FALSE]
    /\ WhileTop(t, evalPtr[t], control[t])
    /\ owner' = [owner EXCEPT ![t] = evalPtr[t]]
    /\ UNCHANGED <<loops, threads, next, async, loopVars, ctlVars, doneCode, sincePause, overridden, iters,
                   envVars>>

\* The loop body: Tcl_EvalObjEx(body) and the command's handling of its code.
Body(t) ==
    /\ tpc[t] = "body"
    /\ ~Blocked(t)
    /\ \E r \in {TCL_OK, TCL_CONTINUE, TCL_BREAK, TCL_ERROR} :
         LET c == SafeCode(t, r)
         IN  /\ async' = SafeAsync(t)
             /\ IF c \in {TCL_OK, TCL_CONTINUE}
                  THEN /\ tpc' = [tpc EXCEPT ![t] = IF kind[t] = "for" THEN "fornext" ELSE "test"]
                       /\ code' = [code EXCEPT ![t] = IF kind[t] = "foreach" THEN TCL_OK ELSE c]
                       /\ iresult' = [iresult EXCEPT ![t] = MsgNone]
                  ELSE /\ tpc' = [tpc EXCEPT ![t] = "leave"]
                       /\ code' = [code EXCEPT ![t] = IF c = TCL_BREAK THEN TCL_OK ELSE c]
                       /\ iresult' = [iresult EXCEPT ![t] =
                                         IF c = TCL_BREAK THEN MsgNone ELSE SafeMsg(t, MsgError)]
    /\ iters' = [iters EXCEPT ![t] = (@ + 1) % SpinMod]
    /\ UNCHANGED <<regVars, loopVars, script, woken, ctlVars, execCount, doneCode, owner,
                   sincePause, overridden, envVars>>

\* ForObjCmd: the loop-end ("next") command.
ForNext(t) ==
    /\ tpc[t] = "fornext"
    /\ \E r \in {TCL_OK, TCL_BREAK, TCL_ERROR} :
         LET c == SafeCode(t, r)
         IN  /\ async' = SafeAsync(t)
             /\ tpc' = [tpc EXCEPT ![t] = IF c = TCL_OK THEN "test" ELSE "leave"]
             /\ code' = [code EXCEPT ![t] = IF c = TCL_BREAK THEN TCL_OK ELSE c]
             /\ iresult' = [iresult EXCEPT ![t] =
                               IF c = TCL_ERROR THEN SafeMsg(t, MsgError) ELSE MsgNone]
    /\ UNCHANGED <<regVars, loopVars, script, woken, ctlVars, histVars, envVars>>

\* The end of ForObjCmd, WhileObjCmd and ForeachObjCmd: LeaveLoop and return.
Leave(t) ==
    /\ tpc[t] = "leave"
    /\ LockFree
    /\ LeaveLoop(t)
    /\ tpc' = [tpc EXCEPT ![t] = "idle"]
    /\ kind' = [kind EXCEPT ![t] = "while"]
    /\ lid' = [lid EXCEPT ![t] = << >>]
    /\ control' = [control EXCEPT ![t] = LOOP_RUN]
    /\ spins' = [spins EXCEPT ![t] = 0]
    /\ evalPtr' = [evalPtr EXCEPT ![t] = NULL]
    /\ etime' = [etime EXCEPT ![t] = 0]
    /\ sincePause' = [sincePause EXCEPT ![t] = 0]
    /\ overridden' = [overridden EXCEPT ![t] = FALSE]
    /\ iters' = [iters EXCEPT ![t] = 0]
    /\ UNCHANGED <<threads, next, lock, async, code, iresult, script, cpc, target, cret, host,
                   execCount, doneCode, owner, envVars>>

\* ------------------------------------------------------------ control commands

\* a lookup that finds a loop under every id
GetLoopAny(id) == IF id \in DOMAIN loops THEN loops[id] ELSE 1

\* GetLoop: the LoopData entered under the id, or NULL.
GetLoop(id) == IF id \in DOMAIN loops THEN loops[id] ELSE NULL

\* GetLoop's error: the message left in the caller's interpreter; the command
\* returns TCL_ERROR
NoSuchLoop(id) == [code |-> TCL_ERROR, msg |-> MsgNoLoop, arg |-> id, info |-> <<>>]

\* List(&loops), List(&threads): the keys of a table, read under the lock.
ListLoops   == DOMAIN loops
ListThreads == threads

\* a check that never finds a request pending
PendingNever(t) == FALSE

\* EvalObjCmd: the loop already has an eval request attached
Pending(t) == evalPtr[t] # NULL

\* a request that waits without having been attached to its loop
AttachNot(t, c) == evalPtr

\* EvalObjCmd: loopPtr->evalPtr = &eval
Attach(t, c) == [evalPtr EXCEPT ![t] = c]

\* EvalObjCmd up to the wait: look the loop up, refuse a second request,
\* queue the script, broadcast and wait for the result.
EvalAttach(c, id, s, h) ==
    /\ cpc[c] = "idle"
    /\ LockFree
    /\ LET t == GetLoop(id)
       IN  IF t = NULL
             THEN /\ cret' = [cret EXCEPT ![c] =
                        [outcome |-> "NotFound", code |-> TCL_ERROR, text |-> <<>>]]
                  /\ UNCHANGED <<cpc, eval, target, cwoken, evalPtr, woken, execCount, host>>
           ELSE IF Pending(t)
             THEN /\ cret' = [cret EXCEPT ![c] =
                        [outcome |-> "EvalPending", code |-> TCL_ERROR, text |-> <<>>]]
                  /\ UNCHANGED <<cpc, eval, target, cwoken, evalPtr, woken, execCount, host>>
           ELSE /\ eval' = [eval EXCEPT ![c] =
                      [state |-> EVAL_WAIT, code |-> TCL_OK, script |-> s, result |-> <<>>]]
                /\ evalPtr' = Attach(t, c)
                /\ target' = [target EXCEPT ![c] = t]
                /\ host' = [host EXCEPT ![c] = h]
                /\ woken' = BroadcastT
                /\ cwoken' = [BroadcastC EXCEPT ![c] = FALSE]
                /\ cpc' = [cpc EXCEPT ![c] = "wait"]
                /\ cret' = [cret EXCEPT ![c] = NoRet]
                /\ execCount' = [execCount EXCEPT ![c] = 0]
    /\ UNCHANGED <<regVars, async, tpc, kind, lid, control, spins, etime, code, iresult,
                   script, doneCode, owner, sincePause, overridden, iters, envVars>>

\* loopctl_eval called by a controller thread that runs no loop
EvalStart(c, id, s) == EvalAttach(c, id, s, NULL)

\* loopctl_eval called from the body of thread t's loop, on that loop
EvalSelf(t, c, s) ==
    /\ tpc[t] = "body"
    /\ ~Blocked(t)
    /\ EvalAttach(c, lid[t], s, t)

\* a return that leaves a timed-out request attached to its loop
EvalReturnKeepsPtr(c) ==
    /\ cret' = [cret EXCEPT ![c] =
          IF eval[c].state = EVAL_WAIT
            THEN [outcome |-> "EvalTimeout", code |-> TCL_ERROR, text |-> <<>>]
          ELSE IF eval[c].state = EVAL_DROP
            THEN [outcome |-> "LoopExited", code |-> TCL_ERROR, text |-> <<>>]
          ELSE [outcome |-> "Done", code |-> eval[c].code, text |-> eval[c].result]]
    /\ evalPtr' = evalPtr
    /\ eval' = [eval EXCEPT ![c] = NoEval]
    /\ target' = [target EXCEPT ![c] = NULL]
    /\ host' = [host EXCEPT ![c] = NULL]
    /\ cwoken' = [cwoken EXCEPT ![c] = FALSE]
    /\ cpc' = [cpc EXCEPT ![c] = "idle"]
    /\ execCount' = [execCount EXCEPT ![c] = 0]
    /\ doneCode' = [doneCode EXCEPT ![c] = TCL_OK]
    /\ owner' = [t \in Threads |-> IF owner[t] = c THEN NULL ELSE owner[t]]
    /\ UNCHANGED <<sincePause, overridden, iters>>

\* EvalObjCmd after the wait: the switch on eval.state, then the buffers are freed.
EvalReturn(c) ==
    /\ cret' = [cret EXCEPT ![c] =
          IF eval[c].state = EVAL_WAIT
            THEN [outcome |-> "EvalTimeout", code |-> TCL_ERROR, text |-> <<>>]
          ELSE IF eval[c].state = EVAL_DROP
            THEN [outcome |-> "LoopExited", code |-> TCL_ERROR, text |-> <<>>]
          ELSE [outcome |-> "Done", code |-> eval[c].code, text |-> eval[c].result]]
    /\ evalPtr' = IF eval[c].state = EVAL_WAIT
                    THEN [evalPtr EXCEPT ![target[c]] = NULL]
                    ELSE evalPtr
    /\ eval' = [eval EXCEPT ![c] = NoEval]
    /\ target' = [target EXCEPT ![c] = NULL]
    /\ host' = [host EXCEPT ![c] = NULL]
    /\ cwoken' = [cwoken EXCEPT ![c] = FALSE]
    /\ cpc' = [cpc EXCEPT ![c] = "idle"]
    /\ execCount' = [execCount EXCEPT ![c] = 0]
    /\ doneCode' = [doneCode EXCEPT ![c] = TCL_OK]
    /\ owner' = [t \in Threads |-> IF owner[t] = c THEN NULL ELSE owner[t]]
    /\ UNCHANGED <<sincePause, overridden, iters>>

\* EvalObjCmd: Ns_CondTimedWait returns NS_OK (signalled): wait again while the
\* request is still waiting, else return.
EvalWake(c) ==
    /\ cpc[c] = "wait"
    /\ cwoken[c]
    /\ LockFree
    /\ IF eval[c].state = EVAL_WAIT
         THEN /\ cwoken' = [cwoken EXCEPT ![c] = FALSE]
              /\ UNCHANGED <<cpc, eval, target, cret, host, evalPtr, histVars>>
         ELSE EvalReturn(c)
    /\ UNCHANGED <<regVars, async, tpc, kind, lid, control, spins, etime, code, iresult,
                   script, woken, envVars>>

\* a return at the deadline that reports "timeout" whatever the request's state
EvalTimeoutByStatus(c) ==
    /\ cpc[c] = "wait"
    /\ LockFree
    /\ cret' = [cret EXCEPT ![c] =
                  [outcome |-> "EvalTimeout", code |-> TCL_ERROR, text |-> <<>>]]
    /\ evalPtr' = [t \in Threads |-> IF evalPtr[t] = c THEN NULL ELSE evalPtr[t]]
    /\ eval' = [eval EXCEPT ![c] = NoEval]
    /\ target' = [target EXCEPT ![c] = NULL]
    /\ host' = [host EXCEPT ![c] = NULL]
    /\ cwoken' = [cwoken EXCEPT ![c] = FALSE]
    /\ cpc' = [cpc EXCEPT ![c] = "idle"]
    /\ execCount' = [execCount EXCEPT ![c] = 0]
    /\ doneCode' = [doneCode EXCEPT ![c] = TCL_OK]
    /\ owner' = [t \in Threads |-> IF owner[t] = c THEN NULL ELSE owner[t]]
    /\ UNCHANGED <<sincePause, overridden, iters>>
    /\ UNCHANGED <<regVars, async, tpc, kind, lid, control, spins, etime, code, iresult,
                   script, woken, envVars>>

\* a timed wait that gives up at the deadline only when the request is no longer waiting
EvalTimeoutIgnored(c) ==
    /\ cpc[c] = "wait"
    /\ LockFree
    /\ eval[c].state # EVAL_WAIT
    /\ EvalReturn(c)
    /\ UNCHANGED <<regVars, async, tpc, kind, lid, control, spins, etime, code, iresult,
                   script, woken, envVars>>

\* EvalObjCmd: Ns_CondTimedWait returns NS_TIMEOUT: the deadline has passed.
EvalTimeout(c) ==
    /\ cpc[c] = "wait"
    /\ LockFree
    /\ EvalReturn(c)
    /\ UNCHANGED <<regVars, async, tpc, kind, lid, control, spins, etime, code, iresult,
                   script, woken, envVars>>

\* a signal that is dropped when the loop is canceled
SetControlUnlessCanceled(old, sig) == IF old = LOOP_CANCEL THEN old ELSE sig

\* Signal: loopPtr->control = signal
SetControl(old, sig) == sig

\* a signal that cannot overwrite a cancel
SignalSticky(id, sig) ==
    /\ LockFree
    /\ LET t == GetLoop(id)
       IN  IF t = NULL
             THEN /\ aret' = NoSuchLoop(id)
                  /\ UNCHANGED <<control, woken, cwoken, sincePause, overridden>>
             ELSE /\ control' = [control EXCEPT ![t] = IF @ = LOOP_CANCEL THEN @ ELSE sig]
                  /\ woken' = BroadcastT
                  /\ cwoken' = BroadcastC
                  /\ aret' = NoAret
                  /\ sincePause' = [sincePause EXCEPT ![t] =
                                        IF control'[t] = control[t] THEN @ ELSE 0]
                  /\ UNCHANGED overridden
    /\ UNCHANGED <<regVars, async, tpc, kind, lid, spins, etime, evalPtr, code, iresult,
                   script, cpc, eval, target, cret, host, execCount, doneCode, owner, iters,
                   ivar, now>>

\* Signal: loopctl_pause, loopctl_run, loopctl_cancel.
Signal(id, sig) ==
    /\ LockFree
    /\ LET t == GetLoop(id)
       IN  IF t = NULL
             THEN /\ aret' = NoSuchLoop(id)
                  /\ UNCHANGED <<control, woken, cwoken, sincePause, overridden>>
             ELSE /\ control' = [control EXCEPT ![t] = SetControl(@, sig)]
                  /\ woken' = BroadcastT
                  /\ cwoken' = BroadcastC
                  /\ aret' = NoAret
                  /\ sincePause' = [sincePause EXCEPT ![t] =
                                        IF control[t] = sig THEN @ ELSE 0]
                  /\ overridden' = [overridden EXCEPT ![t] =
                                        @ \/ (control[t] = LOOP_CANCEL /\ sig # LOOP_CANCEL)]
    /\ UNCHANGED <<regVars, async, tpc, kind, lid, spins, etime, evalPtr, code, iresult,
                   script, cpc, eval, target, cret, host, execCount, doneCode, owner, iters,
                   ivar, now>>

PauseObjCmd(id)  == Signal(id, LOOP_PAUSE)
RunObjCmd(id)    == Signal(id, LOOP_RUN)
CancelObjCmd(id) == Signal(id, LOOP_CANCEL)

\* a mark that reaches the handler of every thread
AsyncMarkAll(t) == [u \in Threads |-> "marked"]

\* Tcl_AsyncMark of thread t's handler
AsyncMark(t) == [async EXCEPT ![t] = "marked"]

\* an abort that also broadcasts the condition variable
AbortBroadcasts(t) ==
    /\ LockFree
    /\ IF t \in threads
         THEN /\ async' = [async EXCEPT ![t] = "marked"]
              /\ aret' = NoAret
              /\ woken' = BroadcastT
         ELSE /\ aret' = [code |-> TCL_ERROR, msg |-> MsgNoThread, arg |-> <<t>>, info |-> <<>>]
              /\ UNCHANGED <<async, woken>>
    /\ UNCHANGED <<regVars, tpc, loopVars, code, iresult, script, ctlVars, histVars,
                   ivar, now>>

\* an abort that marks the handler of a thread whether or not it is in the table
AbortMarksAlways(t) ==
    /\ LockFree
    /\ async' = [async EXCEPT ![t] = IF @ = "none" THEN @ ELSE "marked"]
    /\ aret' = IF t \in threads
                 THEN NoAret
                 ELSE [code |-> TCL_ERROR, msg |-> MsgNoThread, arg |-> <<t>>, info |-> <<>>]
    /\ UNCHANGED <<regVars, tpc, loopVars, code, iresult, script, woken, ctlVars, histVars,
                   ivar, now>>

\* AbortObjCmd: Tcl_AsyncMark of the thread's handler, if the thread is in the table.
AbortObjCmd(t) ==
    /\ LockFree
    /\ IF t \in threads
         THEN /\ async' = AsyncMark(t)
              /\ aret' = NoAret
         ELSE /\ aret' = [code |-> TCL_ERROR, msg |-> MsgNoThread, arg |-> <<t>>, info |-> <<>>]
              /\ UNCHANGED async
    /\ UNCHANGED <<regVars, tpc, loopVars, code, iresult, script, woken, ctlVars, histVars,
                   ivar, now>>

\* a description that does not follow the control state
StatusDescRunning(ctl) == "running"

\* InfoObjCmd: the description of loopPtr->control
StatusDesc(ctl) ==
    IF ctl = LOOP_RUN THEN "running"
    ELSE IF ctl = LOOP_PAUSE THEN "paused"
    ELSE IF ctl = LOOP_CANCEL THEN "canceled"
    ELSE ""

\* InfoObjCmd: the attribute list, formatted from the LoopData under the lock
InfoObjCmd(id) ==
    /\ LockFree
    /\ LET t == GetLoop(id)
       IN  aret' = IF t = NULL
                     THEN NoSuchLoop(id)
                     ELSE [code |-> TCL_OK, msg |-> MsgNone, arg |-> <<>>,
                           info |-> <<[loopid |-> id, threadid |-> t, start |-> etime[t],
                                       spins |-> spins[t], status |-> StatusDesc(control[t]),
                                       command |-> kind[t]]>>]
    /\ UNCHANGED <<regVars, async, tpc, loopVars, code, iresult, script, woken, ctlVars,
                   histVars, ivar, now>>

\* Time passes: a later Ns_GetTime reads a later time.
Tick ==
    /\ now < MaxTime
    /\ now' = now + 1
    /\ UNCHANGED <<regVars, async, tpc, loopVars, code, iresult, script, woken, ctlVars,
                   histVars, ivar, aret>>

\* A condition wait may return without a signal (pthread_cond_wait): in CheckControl
SpuriousWakeT(t) ==
    /\ tpc[t] = "pausewait" /\ ~woken[t]
    /\ woken' = [woken EXCEPT ![t] = TRUE]
    /\ UNCHANGED <<regVars, async, tpc, loopVars, code, iresult, script, ctlVars, histVars, envVars>>

\* ... and in EvalObjCmd
SpuriousWakeC(c) ==
    /\ cpc[c] = "wait" /\ ~cwoken[c]
    /\ cwoken' = [cwoken EXCEPT ![c] = TRUE]
    /\ UNCHANGED <<regVars, async, tpc, loopVars, code, iresult, script, woken,
                   cpc, eval, target, cret, host, histVars, envVars>>

\* ------------------------------------------------------------ specifications

\* SpecReg: loops of the three kinds entering and leaving on every thread,
\* by every exit path, while threads come and go.
NextReg ==
    \/ \E t \in Threads : InitInterp(t)
    \/ \E t \in Threads : ThreadCleanup(t)
    \/ \E t \in Threads : AsyncDelete(t)
    \/ \E t \in Threads : ForStart(t)
    \/ \E t \in Threads : WhileStart(t)
    \/ \E t \in Threads : ForeachStart(t)
    \/ \E t \in Threads : ForeachSetup(t)
    \/ \E t \in Threads : Test(t)
    \/ \E t \in Threads : CheckEnter(t)
    \/ \E t \in Threads : Body(t)
    \/ \E t \in Threads : ForNext(t)
    \/ \E t \in Threads : Leave(t)
    \/ \E id \in LoopIds : CancelObjCmd(id)

SpecReg == Init /\ [][NextReg]_vars

\* SpecCtl: one thread running loops, controlled by pause, run, cancel and abort.
OneThread == {1}

NextCtl ==
    \/ \E t \in OneThread : InitInterp(t)
    \/ \E t \in OneThread : ThreadCleanup(t)
    \/ \E t \in OneThread : AsyncDelete(t)
    \/ \E t \in OneThread : IdleCmd(t)
    \/ \E t \in OneThread : ForStart(t)
    \/ \E t \in OneThread : WhileStart(t)
    \/ \E t \in OneThread : ForeachStart(t)
    \/ \E t \in OneThread : ForeachSetup(t)
    \/ \E t \in OneThread : Test(t)
    \/ \E t \in OneThread : CheckEnter(t)
    \/ \E t \in OneThread : PauseWake(t)
    \/ \E t \in OneThread : Body(t)
    \/ \E t \in OneThread : ForNext(t)
    \/ \E t \in OneThread : Leave(t)
    \/ \E id \in LoopIds : PauseObjCmd(id)
    \/ \E id \in LoopIds : RunObjCmd(id)
    \/ \E id \in LoopIds : CancelObjCmd(id)
    \/ \E t \in OneThread : AbortObjCmd(t)
    \/ \E t \in OneThread : SpuriousWakeT(t)

SpecCtl == Init /\ [][NextCtl]_vars

\* SpecEval: one thread running while loops, with the controllers sending
\* scripts to them and pausing, resuming and cancelling them.
NextEval ==
    \/ \E t \in OneThread : InitInterp(t)
    \/ \E t \in OneThread : WhileStart(t)
    \/ \E t \in OneThread : Test(t)
    \/ \E t \in OneThread : CheckEnter(t)
    \/ \E t \in OneThread : EvalExec(t)
    \/ \E t \in OneThread : EvalFinish(t)
    \/ \E t \in OneThread : PauseWake(t)
    \/ \E t \in OneThread : Body(t)
    \/ \E t \in OneThread : Leave(t)
    \/ \E c \in Controllers, id \in LoopIds, s \in Scripts : EvalStart(c, id, s)
    \/ \E c \in Controllers : EvalWake(c)
    \/ \E c \in Controllers : EvalTimeout(c)
    \/ \E id \in LoopIds : PauseObjCmd(id)
    \/ \E id \in LoopIds : RunObjCmd(id)
    \/ \E id \in LoopIds : CancelObjCmd(id)
    \/ \E t \in OneThread : SpuriousWakeT(t)
    \/ \E c \in Controllers : SpuriousWakeC(c)

SpecEval == Init /\ [][NextEval]_vars

\* SpecInfo: one thread running loops while time passes, with loopctl_info,
\* the three signals and loopctl_abort issued at any moment.
NextInfo ==
    \/ \E t \in OneThread : InitInterp(t)
    \/ \E t \in OneThread : ThreadCleanup(t)
    \/ \E t \in OneThread : AsyncDelete(t)
    \/ \E t \in OneThread : ForStart(t)
    \/ \E t \in OneThread : WhileStart(t)
    \/ \E t \in OneThread : ForeachStart(t)
    \/ \E t \in OneThread : ForeachSetup(t)
    \/ \E t \in OneThread : Test(t)
    \/ \E t \in OneThread : CheckEnter(t)
    \/ \E t \in OneThread : PauseWake(t)
    \/ \E t \in OneThread : Body(t)
    \/ \E t \in OneThread : ForNext(t)
    \/ \E t \in OneThread : Leave(t)
    \/ \E id \in LoopIds : PauseObjCmd(id)
    \/ \E id \in LoopIds : RunObjCmd(id)
    \/ \E id \in LoopIds : CancelObjCmd(id)
    \/ \E id \in LoopIds : InfoObjCmd(id)
    \/ \E t \in Threads : AbortObjCmd(t)
    \/ Tick

SpecInfo == Init /\ [][NextInfo]_vars

\* SpecLive: one thread running while loops and one controller sending
\* scripts, pausing and resuming.  The scheduler runs a thread that can run:
\* a script that was picked up finishes, a waiter that was signalled wakes,
\* and the deadline of a timed wait passes.  Nothing makes a loop body end or
\* a controller send a command.
OneCtl == {1}

NextLive ==
    \/ \E t \in OneThread : InitInterp(t)
    \/ \E t \in OneThread : WhileStart(t)
    \/ \E t \in OneThread : Test(t)
    \/ \E t \in OneThread : CheckEnter(t)
    \/ \E t \in OneThread : EvalExec(t)
    \/ \E t \in OneThread : EvalFinish(t)
    \/ \E t \in OneThread : PauseWake(t)
    \/ \E t \in OneThread : Body(t)
    \/ \E t \in OneThread : Leave(t)
    \/ \E c \in OneCtl, id \in LoopIds, s \in Scripts : EvalStart(c, id, s)
    \/ \E c \in OneCtl : EvalWake(c)
    \/ \E c \in OneCtl : EvalTimeout(c)
    \/ \E id \in LoopIds : PauseObjCmd(id)
    \/ \E id \in LoopIds : RunObjCmd(id)
    \/ \E id \in LoopIds : CancelObjCmd(id)
    \/ \E id \in LoopIds : InfoObjCmd(id)
    \/ \E t \in OneThread : SpuriousWakeT(t)
    \/ \E c \in OneCtl : SpuriousWakeC(c)

Fairness ==
    /\ \A t \in OneThread : WF_vars(EvalExec(t))
    /\ \A t \in OneThread : WF_vars(EvalFinish(t))
    /\ \A t \in OneThread : WF_vars(PauseWake(t))
    /\ \A c \in OneCtl : WF_vars(EvalWake(c))
    /\ \A c \in OneCtl : WF_vars(EvalTimeout(c))

SpecLive == Init /\ [][NextLive]_vars /\ Fairness

\* SpecSelf: one thread running while loops whose body calls loopctl_eval on
\* its own loop (the call slot SelfCtl), next to a controller thread that
\* sends scripts, pauses and resumes.  Fairness as in SpecLive, for both
\* callers.
SelfCtl == {2}

NextSelf ==
    \/ \E t \in OneThread : InitInterp(t)
    \/ \E t \in OneThread : WhileStart(t)
    \/ \E t \in OneThread : Test(t)
    \/ \E t \in OneThread : CheckEnter(t)
    \/ \E t \in OneThread : EvalExec(t)
    \/ \E t \in OneThread : EvalFinish(t)
    \/ \E t \in OneThread : PauseWake(t)
    \/ \E t \in OneThread : Body(t)
    \/ \E t \in OneThread : Leave(t)
    \/ \E t \in OneThread, c \in SelfCtl, s \in Scripts : EvalSelf(t, c, s)
    \/ \E c \in OneCtl, id \in LoopIds, s \in Scripts : EvalStart(c, id, s)
    \/ \E c \in OneCtl \cup SelfCtl : EvalWake(c)
    \/ \E c \in OneCtl \cup SelfCtl : EvalTimeout(c)
    \/ \E id \in LoopIds : PauseObjCmd(id)
    \/ \E id \in LoopIds : RunObjCmd(id)

FairnessSelf ==
    /\ Fairness
    /\ \A c \in SelfCtl : WF_vars(EvalWake(c))
    /\ \A c \in SelfCtl : WF_vars(EvalTimeout(c))

SpecSelf == Init /\ [][NextSelf]_vars /\ FairnessSelf

\* SpecSpin: one thread running while loops that go on until the spin
\* counter wraps, paused, resumed, sent scripts and aborted meanwhile.
NextSpin ==
    \/ \E t \in OneThread : InitInterp(t)
    \/ \E t \in OneThread : WhileStart(t)
    \/ \E t \in OneThread : TestOn(t)
    \/ \E t \in OneThread : CheckEnter(t)
    \/ \E t \in OneThread : EvalExec(t)
    \/ \E t \in OneThread : EvalFinish(t)
    \/ \E t \in OneThread : PauseWake(t)
    \/ \E t \in OneThread : Body(t)
    \/ \E t \in OneThread : Leave(t)
    \/ \E c \in OneCtl, id \in LoopIds, s \in Scripts : EvalStart(c, id, s)
    \/ \E c \in OneCtl : EvalWake(c)
    \/ \E c \in OneCtl : EvalTimeout(c)
    \/ \E id \in LoopIds : PauseObjCmd(id)
    \/ \E id \in LoopIds : RunObjCmd(id)
    \/ \E t \in Threads : AbortObjCmd(t)
    \/ \E t \in OneThread : SpuriousWakeT(t)

SpecSpin == Init /\ [][NextSpin]_vars

\* SpecLock: one thread running while loops that a controller sends scripts
\* to, while the other threads enter and leave foreach loops and
\* loopctl_info is issued at any moment.
OtherThreads == Threads \ OneThread

NextLock ==
    \/ \E t \in Threads : InitInterp(t)
    \/ \E t \in OneThread : WhileStart(t)
    \/ \E t \in OneThread : CheckEnter(t)
    \/ \E t \in OneThread : EvalExec(t)
    \/ \E t \in OneThread : EvalFinish(t)
    \/ \E t \in OneThread : Body(t)
    \/ \E t \in OtherThreads : ForeachStart(t)
    \/ \E t \in OtherThreads : ForeachSetup(t)
    \/ \E t \in Threads : Test(t)
    \/ \E t \in Threads : Leave(t)
    \/ \E c \in OneCtl, id \in LoopIds, s \in Scripts : EvalStart(c, id, s)
    \/ \E c \in OneCtl : EvalWake(c)
    \/ \E c \in OneCtl : EvalTimeout(c)
    \/ \E id \in LoopIds : InfoObjCmd(id)

SpecLock == Init /\ [][NextLock]_vars

\* ------------------------------------------------------------ the registry

\* the threads whose loop command is between EnterLoop and LeaveLoop
Registered == {t \in Threads : InLoop(t)}

\* C1: the ids loopctl_loops returns are exactly the ids of the loops that
\* have completed EnterLoop and not yet executed LeaveLoop, one id per loop:
\* no id is leaked, none is a phantom, and no two loops share one.
C1_ListLoopsIsRegistered ==
    /\ ListLoops = {lid[t] : t \in Registered}
    /\ \A t \in Registered : loops[lid[t]] = t
    /\ Cardinality(ListLoops) = Cardinality(Registered)

\* two loops are registered at once, after the id counter has wrapped
C1_Witness ==
    /\ Cardinality(ListLoops) = 2
    /\ Registered = Threads
    /\ \E t \in Threads : lid[t] = Hex(1) /\ next = 0 /\ tpc[t] = "body"

\* C2: a for, while or foreach command that has returned has left no entry
\* of its own in the loop table, whichever way it left the loop, and the
\* step that ends the command removes exactly the entry of its loop.
C2_ReturnUnregisters ==
    [][\A t \in Threads :
         /\ (~InLoop(t))' => \A id \in DOMAIN loops' : loops'[id] # t
         /\ (InLoop(t) /\ (~InLoop(t))') =>
               /\ tpc[t] = "leave"
               /\ lid[t] \in DOMAIN loops
               /\ DOMAIN loops' = DOMAIN loops \ {lid[t]}]_vars

\* a canceled loop has returned the error of its checkpoint, and the table is empty
C2_Witness ==
    \E t \in Threads :
        /\ tpc[t] = "idle" /\ code[t] = TCL_ERROR /\ iresult[t] = MsgCanceled
        /\ DOMAIN loops = {}

\* ------------------------------------------------------------ loopctl_eval

\* the step in which controller c's loopctl_eval returns from its wait
Returns(c)     == cpc[c] = "wait" /\ cpc'[c] = "idle"
ReturnsDone(c) == Returns(c) /\ cret'[c].outcome = "Done"

\* the step in which thread t's CheckControl takes the lock again after a script
Finishes(t) == tpc[t] = "evalfin" /\ tpc'[t] # "evalfin"

\* C3: a loopctl_eval that returns Done returns the result of the one
\* execution of its own script: the script of that request was picked up
\* exactly once and the text returned is the result of that script.
C3_DoneIsOwnExecution ==
    [][\A c \in Controllers :
         ReturnsDone(c) =>
            /\ execCount[c] = 1
            /\ cret'[c].text = <<ScriptResult(eval[c].script)>>]_vars

\* C4: a loopctl_eval that returns Done returns the completion code of the
\* execution that completed it.
C4_DoneCodeIsScriptCode ==
    [][\A c \in Controllers : ReturnsDone(c) => cret'[c].code = doneCode[c]]_vars

\* C5: a loopctl_eval on a loop that has a request attached fails with
\* "eval pending" at once, attaches nothing and changes no request: the
\* attached request, its script, its state and its waiter are as before.
C5_SecondRequestRefused ==
    [][\A c \in Controllers, id \in LoopIds, s \in Scripts :
         (EvalStart(c, id, s) /\ GetLoop(id) # NULL /\ evalPtr[GetLoop(id)] # NULL) =>
            /\ cret'[c].outcome = "EvalPending"
            /\ cpc'[c] = "idle"
            /\ evalPtr' = evalPtr
            /\ eval' = eval
            /\ target' = target
            /\ execCount' = execCount]_vars

\* one controller is refused while the request of the other is attached and waiting
C5_Witness ==
    \E c1, c2 \in Controllers :
        /\ c1 # c2
        /\ cpc[c1] = "wait" /\ eval[c1].state = EVAL_WAIT /\ evalPtr[target[c1]] = c1
        /\ cret[c2].outcome = "EvalPending"

\* C6: LeaveLoop of a loop with a waiting request marks the request dropped
\* and wakes its controller in the step that deletes the table entry; a
\* dropped request's controller is awake (it need not wait for the deadline)
\* and its loopctl_eval returns "dropped: loop exited", also when the wait
\* itself reports the timeout.
C6_LeaveDropsRequest ==
    [][\A c \in Controllers :
         /\ \A t \in Threads :
               (tpc[t] = "leave" /\ tpc'[t] # "leave" /\ evalPtr[t] = c
                  /\ eval[c].state = EVAL_WAIT) =>
                     /\ eval'[c].state = EVAL_DROP
                     /\ cwoken'[c]
                     /\ lid[t] \notin DOMAIN loops'
         /\ (cpc'[c] = "wait" /\ eval'[c].state = EVAL_DROP) => cwoken'[c]
         /\ (Returns(c) /\ eval[c].state = EVAL_DROP) =>
               cret'[c].outcome = "LoopExited"
         /\ (Returns(c) /\ cret'[c].outcome = "EvalTimeout") =>
               (eval[c].state = EVAL_WAIT /\ target[c] \in Registered)]_vars

\* a controller was told that the loop exited
C6_Witness ==
    \E c \in Controllers : cret[c].outcome = "LoopExited" /\ DOMAIN loops = {}

\* C7: a loopctl_eval that times out detaches its request, and the result of
\* an execution that was in progress for a request that has timed out is
\* delivered to no request.
C7_TimeoutDiscardsResult ==
    [][/\ \A c \in Controllers :
            (Returns(c) /\ eval[c].state = EVAL_WAIT) =>
               /\ cret'[c].outcome = "EvalTimeout"
               /\ evalPtr'[target[c]] = NULL
       /\ \A t \in Threads :
            (Finishes(t) /\ owner[t] = NULL) => eval' = eval]_vars

\* ------------------------------------------------------------ pause, cancel, abort

\* the step in which thread t's CheckControl returns to the loop command
ChecksOut(t) ==
    /\ tpc[t] \in {"check", "pausewait", "evalfin"}
    /\ tpc'[t] \in {"body", "leave"}

\* C8: a checkpoint that returns while control is LOOP_CANCEL returns the
\* cancel error and the body is not run, also when the loop was waiting
\* paused: cancelling a loop that waits paused wakes it, and no body starts
\* from a checkpoint of a canceled loop.
C8_CanceledFailsAtCheckpoint ==
    [][\A t \in Threads :
         /\ (ChecksOut(t) /\ control[t] = LOOP_CANCEL) =>
               /\ tpc'[t] = "leave"
               /\ code'[t] = TCL_ERROR
               /\ iresult'[t] = MsgCanceled
         /\ (tpc[t] = "pausewait" /\ tpc'[t] = "pausewait"
               /\ control[t] # LOOP_CANCEL /\ control'[t] = LOOP_CANCEL) => woken'[t]
         /\ (tpc[t] = "pausewait" /\ woken[t] /\ control[t] = LOOP_CANCEL
               /\ evalPtr[t] = NULL /\ PauseWake(t)) => tpc'[t] = "leave"]_vars

\* a loop that waited paused was canceled and is about to return the cancel error
C8_Witness ==
    \E t \in Threads :
        /\ tpc[t] = "leave" /\ iresult[t] = MsgCanceled /\ code[t] = TCL_ERROR
        /\ sincePause[t] = 0 /\ spins[t] = 2 /\ control[t] = LOOP_CANCEL

\* the step in which thread t runs (ends) the body of its loop
RunsBody(t) == tpc[t] = "body" /\ tpc'[t] # "body"

\* C9 as stated: from the moment control is LOOP_PAUSE, and as long as it is,
\* the spin counter does not advance and the body is not run.
C9_PausedNeverSpins ==
    [][\A t \in Threads :
         (InLoop(t) /\ control[t] = LOOP_PAUSE /\ control'[t] = LOOP_PAUSE) =>
            /\ spins'[t] = spins[t]
            /\ ~RunsBody(t)]_vars

\* C9 as amended: while control is LOOP_PAUSE the spin counter advances at
\* most once, on entering the next checkpoint, and from that entry on the
\* counter does not advance and no body is started or run.
C9_PausedSpinsAtMostOnce ==
    [][\A t \in Threads :
         (InLoop(t) /\ control[t] = LOOP_PAUSE /\ control'[t] = LOOP_PAUSE) =>
            /\ sincePause'[t] <= 1
            /\ spins'[t] - spins[t] = sincePause'[t] - sincePause[t]
            /\ sincePause'[t] = 1 => tpc'[t] \in {"pausewait", "evalrun", "evalfin"}
            /\ sincePause[t] = 1 => (spins'[t] = spins[t] /\ ~RunsBody(t))]_vars

\* a loop paused during its body has counted one more spin and waits
C9_Witness ==
    \E t \in Threads :
        /\ tpc[t] = "pausewait" /\ control[t] = LOOP_PAUSE
        /\ sincePause[t] = 1 /\ spins[t] = 2

\* the steps of thread t that evaluate a command, and so reach a safe point
SafePoint(t) == IdleCmd(t) \/ ForStart(t) \/ Body(t) \/ ForNext(t) \/ EvalExec(t)

\* C10: loopctl_abort of a thread in the table marks its handler, and the
\* next safe point the thread reaches fails with the abort error and
\* unmarks the handler, in a loop or not.
C10_AbortFailsNextSafePoint ==
    [][\A t \in Threads :
         /\ (AbortObjCmd(t) /\ t \in threads) => async'[t] = "marked"
         /\ (async[t] = "marked" /\ SafePoint(t)) =>
               /\ code'[t] = TCL_ERROR
               /\ iresult'[t] = MsgAbort
               /\ async'[t] = "idle"
               /\ tpc'[t] \in {"idle", "leave", "evalfin"}]_vars

\* a thread that is in no loop has been failed by an abort
C10_Witness ==
    \E t \in Threads :
        /\ tpc[t] = "idle" /\ iresult[t] = MsgAbort /\ code[t] = TCL_ERROR
        /\ async[t] = "idle" /\ DOMAIN loops = {}

\* ------------------------------------------------------------ serving a request

\* the step in which thread t's CheckControl picks up the script attached to its loop
PicksUp(t) == tpc[t] # "evalrun" /\ tpc'[t] = "evalrun"

\* the step in which thread t evaluates the script it picked up
Executes(t) == tpc[t] = "evalrun" /\ tpc'[t] = "evalfin"

\* C11 as stated: a loopctl_eval on a running loop whose script was picked up
\* by the loop's checkpoint before the deadline returns Done.
C11_PickedUpReturnsDone ==
    [][\A c \in Controllers :
         (Returns(c) /\ execCount[c] >= 1 /\ control[target[c]] = LOOP_RUN) =>
            cret'[c].outcome = "Done"]_vars

\* C11 as amended: the script attached to a loop is picked up and evaluated by
\* the loop's own thread in the loop's interpreter, where its effect stays
\* visible to the loop; a request whose own execution is stored before the
\* deadline is Done, a request with a stored result eventually returns Done,
\* and a request whose script was picked up returns Done or the timeout.
C11_ServedInLoopContext ==
    /\ [][\A t \in Threads :
             /\ PicksUp(t) =>
                   /\ evalPtr[t] # NULL
                   /\ target[evalPtr[t]] = t
                   /\ script'[t] = eval[evalPtr[t]].script
                   /\ execCount'[evalPtr[t]] = execCount[evalPtr[t]] + 1
             /\ Executes(t) =>
                   /\ ivar'[t] = ScriptVar(script[t])
                   /\ \A u \in Threads \ {t} : ivar'[u] = ivar[u]
             /\ ivar'[t] # ivar[t] => Executes(t)
             /\ (Finishes(t) /\ owner[t] # NULL /\ evalPtr[t] = owner[t]) =>
                   /\ eval'[owner[t]].state = EVAL_DONE
                   /\ eval'[owner[t]].result = <<ScriptResult(eval[owner[t]].script)>>
                   /\ ivar[t] = ScriptVar(eval[owner[t]].script)]_vars
    /\ [][\A c \in Controllers :
             (Returns(c) /\ eval[c].state = EVAL_DONE) => cret'[c].outcome = "Done"]_vars
    /\ \A c \in Controllers :
          (cpc[c] = "wait" /\ eval[c].state = EVAL_DONE)
             ~> (cpc[c] = "idle" /\ cret[c].outcome = "Done")
    /\ \A c \in Controllers :
          (cpc[c] = "wait" /\ \E t \in Threads : owner[t] = c)
             ~> (cpc[c] = "idle" /\ cret[c].outcome \in {"Done", "EvalTimeout"})

\* the request was served: its result came back and the loop, now in its
\* body, sees the variable the script set
C11_Witness ==
    \E c \in Controllers, t \in Threads :
        /\ cret[c].outcome = "Done" /\ cret[c].text = <<ScriptResult(1)>>
        /\ tpc[t] = "body" /\ ivar[t] = ScriptVar(1) /\ control[t] = LOOP_RUN

\* the step in which controller c's loopctl_eval returns without having waited
Refused(c) == cpc[c] = "idle" /\ cpc'[c] = "idle" /\ cret'[c] # cret[c]

\* C12: every loopctl_eval returns: at once with "no such loop id" or "eval
\* pending", or from its wait with the outcome its request's state names
\* (waiting: timeout, dropped: loop exited, done: the result); a waiter whose
\* request is no longer waiting has been signalled and does not wait again;
\* and every waiting loopctl_eval eventually returns, whatever the loop does.
C12_EvalAlwaysReturns ==
    /\ [][\A c \in Controllers :
             /\ Refused(c) => cret'[c].outcome \in {"NotFound", "EvalPending"}
             /\ Returns(c) =>
                   cret'[c].outcome =
                      (IF eval[c].state = EVAL_WAIT THEN "EvalTimeout"
                       ELSE IF eval[c].state = EVAL_DROP THEN "LoopExited"
                       ELSE "Done")
             /\ (cpc[c] = "wait" /\ cpc'[c] = "wait" /\ cwoken[c] /\ ~cwoken'[c]) =>
                   eval[c].state = EVAL_WAIT]_vars
    /\ [](\A c \in Controllers :
             (cpc[c] = "wait" /\ eval[c].state # EVAL_WAIT) => cwoken[c])
    /\ \A c \in Controllers : (cpc[c] = "wait") ~> (cpc[c] = "idle")

\* a request timed out while the loop it was attached to stayed in its body
C12_Witness ==
    \E c \in Controllers, t \in Threads :
        /\ cpc[c] = "idle" /\ cret[c].outcome = "EvalTimeout"
        /\ tpc[t] = "body" /\ evalPtr[t] = NULL /\ spins[t] = 1

\* ------------------------------------------------------------ resuming

\* C13 as stated: a loop that waits paused and whose control has been set to
\* LOOP_RUN goes on to run its body unless it is paused again.
C13_ResumeRunsBody ==
    \A t \in Threads :
        (tpc[t] = "pausewait" /\ control[t] = LOOP_RUN)
           ~> (tpc[t] = "body" \/ control[t] = LOOP_PAUSE)

\* C13 as amended: a signal that changes the control of a loop waiting paused
\* wakes it in the same step; a woken loop that is still paused waits again;
\* a loop waiting paused whose control is LOOP_RUN reaches its body unless its
\* control is changed again (paused or canceled), and one whose control is
\* LOOP_CANCEL leaves the checkpoint for the exit of the command unless its
\* control is changed again.
C13_ResumeWakesLoop ==
    /\ [][\A t \in Threads :
             /\ (tpc[t] = "pausewait" /\ tpc'[t] = "pausewait" /\ control'[t] # control[t]) =>
                   woken'[t]
             /\ (tpc[t] = "pausewait" /\ tpc'[t] # "pausewait") => woken[t]
             /\ (tpc[t] = "pausewait" /\ woken[t] /\ ~woken'[t]
                   /\ control[t] = LOOP_PAUSE /\ evalPtr[t] = NULL) =>
                   tpc'[t] = "pausewait"]_vars
    /\ [](\A t \in Threads :
             (tpc[t] = "pausewait" /\ control[t] # LOOP_PAUSE) => woken[t])
    /\ \A t \in Threads :
          (tpc[t] = "pausewait" /\ control[t] = LOOP_RUN)
             ~> (tpc[t] = "body" \/ control[t] # LOOP_RUN)
    /\ \A t \in Threads :
          (tpc[t] = "pausewait" /\ control[t] = LOOP_CANCEL)
             ~> (tpc[t] = "leave" \/ control[t] # LOOP_CANCEL)

\* loopctl_run has been applied to a loop that waits paused: the loop has
\* been signalled and has not yet run
C13_Witness ==
    \E t \in Threads :
        /\ tpc[t] = "pausewait" /\ control[t] = LOOP_RUN /\ woken[t]
        /\ evalPtr[t] = NULL /\ spins[t] = 1

\* ------------------------------------------------------------ lookups that fail

\* the loop table, every LoopData and every EvalData with its waiter
tableVars == <<loops, threads, next, loopVars, woken, eval, target, cpc, cwoken, async>>

\* C14: loopctl_info, loopctl_eval and loopctl_pause, _run, _cancel called
\* with an id that is not in the loop table return TCL_ERROR with "no such
\* loop id" and change neither the tables nor any LoopData or EvalData.
C14_UnknownLoopIdFails ==
    [][\A id \in LoopIds :
         id \notin DOMAIN loops =>
            /\ InfoObjCmd(id) =>
                  (aret' = NoSuchLoop(id) /\ UNCHANGED <<tableVars, cret>>)
            /\ \A sig \in {LOOP_RUN, LOOP_PAUSE, LOOP_CANCEL} :
                  Signal(id, sig) =>
                     (aret' = NoSuchLoop(id) /\ UNCHANGED <<tableVars, cret>>)
            /\ \A c \in Controllers, s \in Scripts :
                  EvalStart(c, id, s) =>
                     /\ cret'[c] = [outcome |-> "NotFound", code |-> TCL_ERROR, text |-> <<>>]
                     /\ UNCHANGED <<tableVars, aret>>]_vars

\* the id of a loop that has exited was looked up by a signal or loopctl_info
\* and not found, and a loopctl_eval found no loop under its id
C14_Witness ==
    /\ aret = NoSuchLoop(Hex(0))
    /\ \E c \in Controllers : cret[c].outcome = "NotFound"
    /\ next = 1 /\ DOMAIN loops = {}

\* C15: loopctl_abort with the id of a thread that has no entry in the thread
\* table returns TCL_ERROR with "no such active thread", marks no handler
\* and changes nothing else.
C15_UnknownThreadFails ==
    [][\A t \in Threads :
         (AbortObjCmd(t) /\ t \notin threads) =>
            /\ aret' = [code |-> TCL_ERROR, msg |-> MsgNoThread, arg |-> <<t>>, info |-> <<>>]
            /\ UNCHANGED <<tableVars, cret, code, iresult, script, ivar, now, histVars>>]_vars

\* the abort of a thread that has left the table and still has its handler
\* was refused, and the handler is not marked
C15_Witness ==
    \E t \in Threads :
        /\ aret = [code |-> TCL_ERROR, msg |-> MsgNoThread, arg |-> <<t>>, info |-> <<>>]
        /\ tpc[t] = "cleanup" /\ async[t] = "idle" /\ t \notin threads

\* ------------------------------------------------------------ the thread table

\* the threads that have an interpreter and have not begun their exit
Live == {t \in Threads : tpc[t] \notin {"none", "cleanup"}}

\* C16: loopctl_threads lists exactly the live threads that have initialised
\* an interpreter, each once and each with its one ThreadData; initialising
\* another interpreter on a listed thread, or running a loop on it, leaves
\* the table and the thread's handler as they are.
C16_OneEntryPerThread ==
    /\ [](/\ ListThreads = Live
           /\ Cardinality(ListThreads) = Cardinality(Live)
           /\ \A t \in ListThreads : async[t] # "none")
    /\ [][\A t \in Threads :
             /\ (InitInterp(t) /\ t \in threads) => UNCHANGED <<threads, async>>
             /\ (InLoop(t) \/ (InLoop(t))') => (t \in threads /\ t \in threads')]_vars

\* both threads are listed while each runs a loop
C16_Witness ==
    /\ ListThreads = Threads
    /\ \A t \in Threads : tpc[t] = "body"

\* ------------------------------------------------------------ loopctl_info

\* the step in which thread t enters its loop in the table
Enters(t) == ~InLoop(t) /\ (InLoop(t))'

C20_SpinsIsCompleted ==
    [][\A id \in LoopIds :
         (InfoObjCmd(id) /\ id \in DOMAIN loops) =>
            aret'.info[1].spins = iters[loops[id]]]_vars

\* ------------------------------------------------------------ scripts and signals

\* C18: a checkpoint in which the injected script ended with a code other
\* than TCL_OK does not go on to the loop body.
C18_BodyOnlyIfScriptOk ==
    [][\A t \in Threads :
         (ChecksOut(t) /\ tpc[t] \in {"evalfin", "pausewait"} /\ code[t] # TCL_OK) =>
            tpc'[t] # "body"]_vars

\* the signals
Signals == {LOOP_RUN, LOOP_PAUSE, LOOP_CANCEL}

\* C19: a signal for a registered loop returns TCL_OK, sets the loop's
\* control to the signal whatever it was, wakes the waiters and changes
\* nothing else; applied to a loop whose control already is the signal it
\* changes nothing but the wake-up, and applied right after itself nothing at all.
C19_SignalIdempotent ==
    [][\A id \in LoopIds, sig \in Signals :
         (Signal(id, sig) /\ id \in DOMAIN loops) =>
            LET t == loops[id]
            IN  /\ control' = [control EXCEPT ![t] = sig]
                /\ aret' = NoAret
                /\ woken' = BroadcastT /\ cwoken' = BroadcastC
                /\ UNCHANGED <<regVars, async, tpc, kind, lid, spins, etime, evalPtr,
                               code, iresult, script, ivar, cpc, eval, target, cret>>
                /\ control[t] = sig => UNCHANGED <<control, sincePause>>
                /\ (control[t] = sig /\ aret = NoAret
                      /\ woken = BroadcastT /\ cwoken = BroadcastC) => UNCHANGED vars]_vars

\* a loop that waits paused has been signalled while its control stayed
\* LOOP_PAUSE: loopctl_pause was applied to it again
C19_Witness ==
    \E t \in Threads :
        /\ tpc[t] = "pausewait" /\ control[t] = LOOP_PAUSE /\ woken[t]
        /\ aret = NoAret /\ sincePause[t] = 1 /\ spins[t] = 1

\* ------------------------------------------------------------ the checkpoint

C22_ScriptRunsUnlocked ==
    \A t \in Threads :
        tpc[t] = "evalrun" =>
           /\ lock # t /\ LockFree
           /\ ENABLED EvalExec(t)
           /\ \A id \in LoopIds : ENABLED InfoObjCmd(id) /\ ENABLED PauseObjCmd(id)
           /\ \A u \in Threads : ENABLED AbortObjCmd(u)
           /\ \A u \in Threads \ {t} :
                 /\ tpc[u] = "idle" => ENABLED WhileStart(u)
                 /\ tpc[u] = "leave" => ENABLED Leave(u)
                 /\ tpc[u] = "none" => ENABLED InitInterp(u)

\* while thread 1 evaluates the script picked up at its first checkpoint,
\* loopctl_info has read that loop's first spin and thread 2 has entered a
\* loop and is about to leave it
C22_Witness ==
    /\ tpc[1] = "evalrun" /\ spins[1] = 1
    /\ Len(aret.info) = 1 /\ aret.info[1].threadid = 1 /\ aret.info[1].spins = 1
    /\ tpc[2] = "leave" /\ lid[2] = Hex(1)

C24_IdsPairwiseDistinct ==
    /\ [](\A t \in Registered :
            /\ lid[t] \in DOMAIN loops /\ loops[lid[t]] = t
            /\ \A u \in Registered \ {t} : lid[u] # lid[t])
    /\ [][\A t \in Threads :
            Enters(t) =>
               LET n == Probe(next, DOMAIN loops)
               IN  /\ lid'[t] = Hex(n)
                   /\ lid'[t] \notin DOMAIN loops
                   /\ \A k \in 0..(NextMod - 1) :
                         (k # n /\ Hex(k) \notin DOMAIN loops) =>
                            (n - next) % NextMod < (k - next) % NextMod
                   /\ \A k \in DOMAIN loops : k \in DOMAIN loops' /\ loops'[k] = loops[k]
                   /\ next' = (n + 1) % NextMod]_vars

\* both threads are in the bodies of their loops and the counter, after a
\* wrap, points at the key of thread 2's loop
C24_Witness ==
    /\ tpc[1] = "body" /\ tpc[2] = "body"
    /\ lid[1] = Hex(0) /\ lid[2] = Hex(1)
    /\ next = 1

\* C24 as stated: distinct ids drawn from a counter that only increases
C24_CounterOnlyIncreases ==
    /\ [](\A t \in Registered : \A u \in Registered \ {t} : lid[u] # lid[t])
    /\ [][next' >= next]_vars

\* C25: a loop's spin counter is 0 when the loop enters the table, never
\* decreases while the loop is in the table, and changes only in the step
\* that enters a checkpoint, by exactly one, however many scripts that visit
\* serves and however often it waits and wakes.
C25_SpinsMonotone ==
    [][\A t \in Threads :
         /\ Enters(t) => spins'[t] = 0
         /\ (InLoop(t) /\ (InLoop(t))') =>
               /\ spins'[t] >= spins[t]
               /\ spins'[t] # spins[t] => tpc[t] = "check"
               /\ (tpc[t] = "check" /\ tpc'[t] # "check") => spins'[t] = spins[t] + 1]_vars

\* C26: whenever the lock is free, a request attached to a loop belongs to
\* a loop in the table, is in state EVAL_WAIT and is the one its sender
\* waits on.  A request starts in EVAL_WAIT; while its sender waits its
\* state changes at most once, to EVAL_DONE or EVAL_DROP, in a step that
\* also detaches it from its loop (or takes the loop out of the table), and
\* then stays as it is until the sender returns and discards it.
C26_AttachedIsWaiting ==
    /\ [](LockFree =>
            \A t \in Threads :
               evalPtr[t] # NULL =>
                  /\ InLoop(t) /\ lid[t] \in DOMAIN loops
                  /\ eval[evalPtr[t]].state = EVAL_WAIT
                  /\ cpc[evalPtr[t]] = "wait" /\ target[evalPtr[t]] = t)
    /\ [][\A c \in Controllers :
            /\ (cpc[c] = "idle" /\ cpc'[c] = "wait") =>
                  eval'[c].state = EVAL_WAIT /\ evalPtr'[target'[c]] = c
            /\ (cpc[c] = "wait" /\ cpc'[c] = "wait" /\ eval'[c] # eval[c]) =>
                  /\ eval[c].state = EVAL_WAIT
                  /\ eval'[c].state \in {EVAL_DONE, EVAL_DROP}
                  /\ evalPtr[target[c]] = c
                  /\ evalPtr'[target[c]] = NULL
                  /\ eval'[c].state = EVAL_DROP => lid[target[c]] \notin DOMAIN loops'
            /\ (cpc[c] = "wait" /\ eval[c].state # EVAL_WAIT /\ ~Returns(c)) =>
                  eval'[c] = eval[c]]_vars

\* a request has been served and detached in one step: its state is
\* EVAL_DONE, its sender has not yet woken, and the loop, with no request
\* attached, is in the body of its second iteration
C26_Witness ==
    /\ eval[1].state = EVAL_DONE /\ cpc[1] = "wait" /\ target[1] = 1
    /\ evalPtr[1] = NULL
    /\ tpc[1] = "body" /\ spins[1] = 2

\* C27: the abort handler of a thread in the table is idle or marked.  It
\* becomes marked only by loopctl_abort, and loopctl_abort of a marked
\* handler leaves it marked, so any number of aborts before the next safe
\* point count as one.  The next safe point of a marked handler fails with
\* the abort error and makes the handler idle; the handler leaves the
\* marked state in no other way while its thread lives, and a safe point
\* of an idle handler does not fail with the abort error and leaves the
\* handler idle.
C27_AbortHandleCycle ==
    [][\A t \in Threads :
         /\ (async[t] = "marked" /\ AbortObjCmd(t)) => async'[t] = "marked"
         /\ (async[t] = "idle" /\ async'[t] = "marked") =>
               t \in threads /\ tpc' = tpc /\ aret'.code = TCL_OK
         /\ (async[t] = "marked" /\ SafePoint(t)) =>
               async'[t] = "idle" /\ code'[t] = TCL_ERROR /\ iresult'[t] = MsgAbort
         /\ (async[t] = "marked" /\ async'[t] = "idle") =>
               code'[t] = TCL_ERROR /\ iresult'[t] = MsgAbort
         /\ (async[t] = "marked" /\ async'[t] = "none") => tpc[t] = "cleanup"
         /\ (async[t] = "idle" /\ (SafePoint(t) \/ Test(t))) =>
               async'[t] = "idle" /\ iresult'[t] # MsgAbort]_vars

\* a loop's second iteration was failed by an abort, and a second abort has
\* marked the handler again before the loop command has left the table
C27_Witness ==
    /\ tpc[1] = "leave" /\ spins[1] = 2 /\ iters[1] = 2
    /\ iresult[1] = MsgAbort /\ code[1] = TCL_ERROR
    /\ async[1] = "marked"

\* C28: loopctl_abort changes nothing but the handler of the thread it
\* names (and its own return value): the loop table, the thread table,
\* the id counter, every loop's control, spins, evalPtr and other fields,
\* every eval request and its sender, every thread's position and result,
\* and the handlers of all other threads are as before.
C28_AbortTouchesOneHandler ==
    [][\A t \in Threads :
         AbortObjCmd(t) =>
            /\ UNCHANGED <<loops, threads, next, lock>>
            /\ UNCHANGED <<kind, lid, control, spins, etime, evalPtr>>
            /\ UNCHANGED <<eval, target, cpc, cret, host, woken, cwoken>>
            /\ UNCHANGED <<tpc, code, iresult, script>>
            /\ \A u \in Threads \ {t} : async'[u] = async[u]
            /\ async'[t] \in {async[t], "marked"}]_vars

\* the handler of a thread has been marked while its loop, paused and with
\* an eval request attached, waits in its first checkpoint: the loop is
\* still paused, in the table and waiting, and the request still attached
C28_Witness ==
    /\ async[1] = "marked" /\ aret = NoAret
    /\ tpc[1] = "pausewait" /\ control[1] = LOOP_PAUSE /\ spins[1] = 1
    /\ lid[1] \in DOMAIN loops
    /\ evalPtr[1] = 1 /\ eval[1].state = EVAL_WAIT /\ cpc[1] = "wait"

\* C29: a thread that exits takes its entry out of the thread table in one
\* step under the lock and then deletes its handler.  From the first of
\* these steps on loopctl_threads does not list the thread, and
\* loopctl_abort of it fails with "no such active thread" and marks nothing;
\* once the thread is gone its handler is gone.
C29_CleanupUnlistsThread ==
    /\ [](\A t \in Threads :
            /\ tpc[t] \in {"cleanup", "none"} => t \notin ListThreads
            /\ tpc[t] = "none" => async[t] = "none")
    /\ [][\A t \in Threads :
            /\ (tpc[t] = "idle" /\ tpc'[t] = "cleanup") =>
                  /\ LockFree
                  /\ t \in threads /\ threads' = threads \ {t}
                  /\ async' = async
            /\ (tpc[t] = "cleanup" /\ tpc'[t] # "cleanup") =>
                  /\ tpc'[t] = "none" /\ async'[t] = "none"
                  /\ threads' = threads
            /\ (AbortObjCmd(t) /\ tpc[t] \in {"cleanup", "none"}) =>
                  /\ aret' = [code |-> TCL_ERROR, msg |-> MsgNoThread,
                               arg |-> <<t>>, info |-> <<>>]
                  /\ async' = async]_vars

\* a thread that ran a loop has exited: it is not listed, its handler is
\* gone, and the abort of it was refused
C29_Witness ==
    /\ tpc[1] = "none" /\ async[1] = "none" /\ 1 \notin ListThreads
    /\ next = 1 /\ DOMAIN loops = {}
    /\ aret = [code |-> TCL_ERROR, msg |-> MsgNoThread, arg |-> <<1>>, info |-> <<>>]

\* C30: the step in which a checkpoint returns, with TCL_OK or with the
\* cancel error, is one that tests the loop with the lock held and finds
\* no request attached and control not LOOP_PAUSE, and releases the lock:
\* the request that was attached when the step began has been served and
\* detached in it.  It returns TCL_OK, and the body starts, exactly when
\* control is not LOOP_CANCEL.
C30_ReturnsOnlyWhenClear ==
    [][\A t \in Threads :
         ChecksOut(t) =>
            /\ control[t] # LOOP_PAUSE /\ control'[t] = control[t]
            /\ evalPtr'[t] = NULL
            /\ tpc[t] \in {"check", "pausewait"} => evalPtr[t] = NULL
            /\ lock' = NULL
            /\ tpc'[t] = "body" <=> control[t] # LOOP_CANCEL
            /\ tpc'[t] = "body" => code'[t] = TCL_OK]_vars

\* a loop's first checkpoint has served the requests of both controllers
\* and then returned: the body of the first iteration has started with no
\* request attached and control LOOP_RUN
C30_Witness ==
    /\ tpc[1] = "body" /\ spins[1] = 1 /\ iters[1] = 0
    /\ cret[1].outcome = "Done" /\ cret[2].outcome = "Done"
    /\ evalPtr[1] = NULL /\ control[1] = LOOP_RUN

\* ------------------------------------------------------------ the request's lifetime

\* C31: while a sender waits in loopctl_eval and its request is in EVAL_WAIT,
\* the loop it addressed is in the table and that loop's evalPtr is this
\* request.  So the return with "timeout" clears the evalPtr of a loop that
\* is in the table, detaches the sender's own request, and touches the
\* evalPtr of no other loop.
C31_WaitingIsAttached ==
    /\ [](\A c \in Controllers :
            (cpc[c] = "wait" /\ eval[c].state = EVAL_WAIT) =>
               /\ target[c] \in Threads
               /\ InLoop(target[c]) /\ lid[target[c]] \in DOMAIN loops
               /\ loops[lid[target[c]]] = target[c]
               /\ evalPtr[target[c]] = c)
    /\ [][\A c \in Controllers :
            (Returns(c) /\ cret'[c].outcome = "EvalTimeout") =>
               /\ eval[c].state = EVAL_WAIT
               /\ evalPtr[target[c]] = c /\ evalPtr'[target[c]] = NULL
               /\ InLoop(target[c]) /\ lid[target[c]] \in DOMAIN loops
               /\ \A u \in Threads \ {target[c]} : evalPtr'[u] = evalPtr[u]]_vars

\* controller 2 has timed out and detached its request while the loop was
\* running that request's script; controller 1 has attached its own request
\* since and waits on it, the script still running
C31_Witness ==
    /\ tpc[1] = "evalrun" /\ owner[1] = NULL
    /\ cret[2].outcome = "EvalTimeout" /\ cpc[2] = "idle"
    /\ cpc[1] = "wait" /\ eval[1].state = EVAL_WAIT /\ evalPtr[1] = 1

\* C32: no loop in the table points to the EvalData of a loopctl_eval that
\* has returned.  At every return, with the result, with "dropped" or with
\* "timeout", no loop's evalPtr is the returning call's request; a request
\* some loop points to belongs to a call that is still waiting; and an
\* EvalData is written only between its call's attach and its return.
C32_NoLoopKeepsReturnedRequest ==
    /\ [](\A t \in Threads :
            evalPtr[t] # NULL => (InLoop(t) => cpc[evalPtr[t]] = "wait"))
    /\ [][\A c \in Controllers :
            /\ Returns(c) =>
                  /\ cret'[c].outcome \in {"Done", "LoopExited", "EvalTimeout"}
                  /\ \A t \in Threads : evalPtr'[t] # c
            /\ (cpc[c] = "idle" /\ eval'[c] # eval[c]) => cpc'[c] = "wait"]_vars

\* one call has returned with "dropped" and the other with "timeout"; the
\* loop they addressed has left the table and points to no request
C32_Witness ==
    /\ cret[1].outcome = "LoopExited" /\ cpc[1] = "idle"
    /\ cret[2].outcome = "EvalTimeout" /\ cpc[2] = "idle"
    /\ tpc[1] = "idle" /\ evalPtr[1] = NULL /\ DOMAIN loops = {}

\* C33: the script of one loopctl_eval call is picked up for execution at
\* most once, whether the call returns the result, "dropped" or "timeout",
\* and whatever pause, run, cancel and further loopctl_eval calls do
\* meanwhile: a checkpoint picks up only a request that has not been picked
\* up, and the script it then runs is that request's.
C33_ScriptRunsAtMostOnce ==
    /\ [](\A c \in Controllers : execCount[c] <= 1)
    /\ [][\A t \in Threads :
            PicksUp(t) =>
               /\ evalPtr[t] # NULL
               /\ execCount[evalPtr[t]] = 0 /\ execCount'[evalPtr[t]] = 1
               /\ script'[t] = eval[evalPtr[t]].script
               /\ \A c \in Controllers \ {evalPtr[t]} : execCount'[c] = execCount[c]]_vars

\* the script of controller 1's call has been run once and its result
\* stored, after controller 2's call had timed out; the loop, canceled
\* meanwhile, has left the checkpoint with the cancel error
C33_Witness ==
    /\ execCount[1] = 1 /\ eval[1].state = EVAL_DONE /\ cpc[1] = "wait"
    /\ cret[2].outcome = "EvalTimeout" /\ cpc[2] = "idle"
    /\ tpc[1] = "leave" /\ iresult[1] = MsgCanceled /\ control[1] = LOOP_CANCEL

\* ------------------------------------------------------------ signals and requests

\* C34: LOOP_CANCEL is not final.  A signal applied to a loop in the table
\* sets its control to the signal whatever the control was, LOOP_CANCEL
\* included, and a checkpoint fails with the cancel error exactly when the
\* control it reads is LOOP_CANCEL: a loop whose cancel was overwritten by
\* run or pause before its checkpoint read it goes on to its body once
\* control is LOOP_RUN.
C34_LastSignalWins ==
    [][/\ \A id \in LoopIds, sig \in Signals :
            (Signal(id, sig) /\ GetLoop(id) # NULL) => control'[GetLoop(id)] = sig
       /\ \A t \in Threads :
            /\ ChecksOut(t) =>
                  /\ tpc'[t] = "leave" <=> control[t] = LOOP_CANCEL
                  /\ tpc'[t] = "leave" => iresult'[t] = MsgCanceled /\ code'[t] = TCL_ERROR
                  /\ tpc'[t] = "body" => iresult'[t] # MsgCanceled /\ code'[t] = TCL_OK
            /\ (overridden'[t] /\ ~overridden[t]) =>
                  control[t] = LOOP_CANCEL /\ control'[t] # LOOP_CANCEL]_vars

\* a cancel of the loop was overwritten by a later signal before a
\* checkpoint read it, and the loop's second checkpoint has returned TCL_OK:
\* the body of the second iteration has started
C34_Witness ==
    /\ overridden[1] /\ control[1] = LOOP_RUN
    /\ tpc[1] = "body" /\ spins[1] = 2 /\ iters[1] = 1
    /\ code[1] = TCL_OK /\ sincePause[1] = 0

C36_OutcomeFollowsState ==
    [][\A c \in Controllers :
         /\ Returns(c) =>
               /\ eval[c].state = EVAL_WAIT <=> cret'[c].outcome = "EvalTimeout"
               /\ eval[c].state = EVAL_DONE <=> cret'[c].outcome = "Done"
               /\ eval[c].state = EVAL_DROP <=> cret'[c].outcome = "LoopExited"
               /\ cret'[c].outcome = "Done" => cret'[c].text = eval[c].result
         /\ (EvalTimeout(c) /\ eval[c].state # EVAL_WAIT) =>
               cret'[c].outcome \in {"Done", "LoopExited"}]_vars

\* both calls have returned from requests that had left EVAL_WAIT, one with
\* a result and one with "dropped", each by a step the deadline of its wait
\* can take as well as a wake-up
C36_Witness ==
    /\ cret[1].outcome = "LoopExited" /\ cpc[1] = "idle"
    /\ cret[2].outcome = "Done" /\ cret[2].text # <<>> /\ cpc[2] = "idle"
    /\ tpc[1] = "idle" /\ DOMAIN loops = {}

\* C37: loopctl_abort does not release a paused loop.  It changes neither
\* control nor any thread's position and wakes no waiter; a thread leaves
\* the wait of its checkpoint only woken and with control no longer
\* LOOP_PAUSE or a request attached; a handler marked while its thread
\* waits stays marked as long as the thread is in the checkpoint, and is
\* invoked, failing the thread with the abort error, only at a safe point
\* outside the checkpoint's lock: the script of a request, the loop body or
\* a later command.
C37_AbortLeavesLoopPaused ==
    /\ [](\A t \in Threads :
            (tpc[t] = "pausewait" /\ ~woken[t]) => ~ENABLED PauseWake(t))
    /\ [][\A t \in Threads :
            /\ AbortObjCmd(t) =>
                  UNCHANGED <<tpc, control, evalPtr, woken, cwoken>>
            /\ (tpc[t] = "pausewait" /\ tpc'[t] # "pausewait") =>
                  woken[t] /\ (control[t] # LOOP_PAUSE \/ evalPtr[t] # NULL)
            /\ (tpc[t] \in {"check", "pausewait", "evalfin"} /\ async[t] = "marked") =>
                  async'[t] = "marked"
            /\ (async[t] = "marked" /\ async'[t] = "idle") =>
                  /\ tpc[t] \in {"evalrun", "body", "test", "fornext", "idle"}
                  /\ iresult'[t] = MsgAbort /\ code'[t] = TCL_ERROR]_vars

\* the handler of a thread that waits paused has been marked, and the
\* thread has not been woken: it is still in the wait, with the abort
\* pending
C37_Witness ==
    /\ tpc[1] = "pausewait" /\ ~woken[1]
    /\ async[1] = "marked" /\ aret = NoAret
    /\ control[1] = LOOP_PAUSE /\ evalPtr[1] = NULL /\ spins[1] = 1

\* C38: from the signal that makes a loop's control LOOP_PAUSE until the
\* next signal that changes it, the loop counts at most one spin, the one
\* of the next checkpoint it enters, and starts at most one body, the one
\* whose checkpoint had already returned: no checkpoint returns to the body
\* while control is LOOP_PAUSE, and once the spin is counted the loop only
\* waits or serves requests.
C38_PauseAllowsOneSpinOneBody ==
    [][\A t \in Threads :
         /\ (control[t] # LOOP_PAUSE /\ control'[t] = LOOP_PAUSE) => sincePause'[t] = 0
         /\ (control[t] = LOOP_PAUSE /\ control'[t] = LOOP_PAUSE /\ InLoop(t)) =>
               /\ sincePause'[t] \in {0, 1} /\ sincePause'[t] >= sincePause[t]
               /\ spins'[t] = (spins[t] + (sincePause'[t] - sincePause[t])) % SpinMod
               /\ ~(tpc[t] # "body" /\ tpc'[t] = "body")
               /\ RunsBody(t) => sincePause[t] = 0
               /\ sincePause[t] = 1 =>
                     tpc[t] \in {"pausewait", "evalrun", "evalfin"}]_vars

\* a loop paused during the body of its first iteration has finished that
\* body, counted its second spin and waits; it has served a request since
\* and waits again, not woken
C38_Witness ==
    /\ tpc[1] = "pausewait" /\ ~woken[1] /\ control[1] = LOOP_PAUSE
    /\ sincePause[1] = 1 /\ spins[1] = 2 /\ iters[1] = 1
    /\ cret[1].outcome = "Done" /\ cpc[1] = "idle"

\* C39: loopctl_abort never marks a handler that has been deleted.  Every
\* thread in the table has its handler; a handler is deleted only after
\* its thread's entry has left the table, in an earlier step under the
\* lock; and loopctl_abort, which looks the entry up and marks under the
\* lock, marks only the handler of a thread it found in the table.
C39_AbortMarksLiveHandler ==
    /\ [](\A t \in threads : async[t] # "none")
    /\ [][\A t \in Threads :
            /\ (async[t] # "none" /\ async'[t] = "none") =>
                  tpc[t] = "cleanup" /\ t \notin threads
            /\ AbortObjCmd(t) =>
                  /\ async'[t] # async[t] => (t \in threads /\ async[t] = "idle")
                  /\ async[t] = "none" => async'[t] = "none"
                  /\ tpc[t] \in {"cleanup", "none"} => async' = async
            /\ (async[t] = "none") => async'[t] \in {"none", "idle"}]_vars

\* a thread whose handler was marked has begun its exit without reaching a
\* safe point; its entry is out of the table, its handler not yet deleted,
\* and an abort issued now was refused
C39_Witness ==
    /\ tpc[1] = "cleanup" /\ async[1] = "marked" /\ 1 \notin threads
    /\ aret = [code |-> TCL_ERROR, msg |-> MsgNoThread, arg |-> <<1>>, info |-> <<>>]

====
